---------------------------- MODULE Spec2Model ----------------------------
(***************************************************************************)
(* Attachment content pipeline of outlook-mcp: classification of an        *)
(* attachment (isTextContent / isExcelFile / isOfficeDocument), the two    *)
(* parsers, the file output utility (handleLargeContent, saveFileToDisc)   *)
(* and downloadAttachmentTool; the retention sweep cleanupOldFiles; the    *)
(* FolderResolver cache, for one call and for interleaved calls;           *)
(* getEmailTool; getPrompt; the promise of parseOfficeDocument; and the    *)
(* tool-call handler of the server.                                        *)
(*                                                                         *)
(* JavaScript strings are TLA+ strings; a value that may be null is a      *)
(* sequence of length at most one: << >> is null, <<s>> is the string s.   *)
(***************************************************************************)
EXTENDS Integers, Sequences, FiniteSets, TLC

VARIABLES
    cin,      \* classification: the (contentBytes, contentType, filename) under test
    cout,     \* classification: result of decodeAttachmentContent, or Pending
    pin,      \* parsers: the parser input under test
    pout,     \* parsers: the parser result, or Pending
    req,      \* file output: per request, the state of its handleLargeContent call
    fs,       \* file output: environment variable, directories and files on disk
    now,      \* file output: Date.now()
    dl,       \* downloadAttachmentTool: the state of one call
    sw,       \* cleanupOldFiles: the state of one sweep
    fr,       \* FolderResolver: the resolver object, the mailbox and one call
    em,       \* getEmailTool: the state of one call
    pr,       \* getPrompt: the state of one call
    prom,     \* parseOfficeDocument: the promise it returns and the extraction routine
    conc,     \* FolderResolver shared by concurrent calls
    srv       \* tool-call handler of the server

vars == <<cin, cout, pin, pout, req, fs, now, dl, sw, fr, em, pr, prom, conc, srv>>

Pending == [type |-> "pending"]

---------------------------------------------------------------------------
(* JavaScript string primitives *)

Null == << >>

Str(s) == <<s>>

\* JavaScript truthiness of a string-or-null: null and "" are falsy.
Truthy(v) == v # Null /\ v[1] # ""

UpperCase == "ABCDEFGHIJKLMNOPQRSTUVWXYZ"

LowerCase == "abcdefghijklmnopqrstuvwxyz"

CharAt(s, i) == SubSeq(s, i, i)

RECURSIVE IndexIn(_, _, _)
\* 1-based position of character c in alphabet a at or after i, 0 if absent
IndexIn(a, c, i) ==
    IF i > Len(a) THEN 0
    ELSE IF CharAt(a, i) = c THEN i ELSE IndexIn(a, c, i + 1)

toLowerChar(c) ==
    LET k == IndexIn(UpperCase, c, 1) IN IF k = 0 THEN c ELSE CharAt(LowerCase, k)

RECURSIVE toLowerCase(_)
toLowerCase(s) ==
    IF s = "" THEN "" ELSE toLowerChar(CharAt(s, 1)) \o toLowerCase(SubSeq(s, 2, Len(s)))

startsWith(s, p) == Len(s) >= Len(p) /\ SubSeq(s, 1, Len(p)) = p

strIncludes(s, sub) ==
    \E i \in 1..(Len(s) + 1) : i + Len(sub) - 1 <= Len(s) /\ SubSeq(s, i, i + Len(sub) - 1) = sub

\* String.prototype.lastIndexOf for a one-character needle: 0-based, -1 if absent
lastIndexOf(s, c) ==
    LET hits == {i \in 1..Len(s) : CharAt(s, i) = c}
    IN IF hits = {} THEN -1 ELSE (CHOOSE i \in hits : \A j \in hits : j <= i) - 1

\* String.prototype.substring(start): a negative start counts as 0
substring(s, start) ==
    LET b == IF start < 0 THEN 0 ELSE IF start > Len(s) THEN Len(s) ELSE start
    IN SubSeq(s, b + 1, Len(s))

RECURSIVE trimStart(_)
trimStart(s) ==
    IF s # "" /\ CharAt(s, 1) = " " THEN trimStart(SubSeq(s, 2, Len(s))) ELSE s

RECURSIVE trimEnd(_)
trimEnd(s) ==
    IF s # "" /\ CharAt(s, Len(s)) = " " THEN trimEnd(SubSeq(s, 1, Len(s) - 1)) ELSE s

trim(s) == trimEnd(trimStart(s))

\* filename.toLowerCase().substring(filename.lastIndexOf('.'))
extOf(filename) == substring(toLowerCase(filename), lastIndexOf(filename, "."))

---------------------------------------------------------------------------
(* Content: a Base64 string as delivered by the mail API.                  *)
(*   ok      FALSE when the value is not a string (Buffer.from throws)     *)
(*   id      identity of the bytes                                         *)
(*   size    number of decoded bytes                                       *)
(*   b64len  number of characters of the Base64 string                     *)
(*   head    the first decoded bytes read as UTF-8                         *)
(*   jsonLen length of JSON.stringify of the decoded text                  *)
(*   xlsx    what XLSX.read makes of the bytes                             *)
(*   office  how officeParser.parseOffice answers for the bytes            *)

\* Length of the canonical (padded) Base64 encoding of n bytes
Base64Length(n) == 4 * ((n + 2) \div 3)

\* JSON.stringify of a string of n characters, e of which need a two-character escape
JsonStringLength(n, e) == n + e + 2

NoWorkbook == [throws |-> TRUE, message |-> "Unsupported file"]

\* compact, pretty: length of JSON.stringify(data) and of JSON.stringify(data, null, 2)
Workbook(sheets, compact, pretty) ==
    [throws |-> FALSE, sheets |-> sheets, compact |-> compact, pretty |-> pretty]

OfficeAnswer(kind, text) == [kind |-> kind, text |-> text, message |-> "Unsupported file"]

Content(id, size, head, esc, xlsx, office) ==
    [ok |-> TRUE, id |-> id, size |-> size, b64len |-> Base64Length(size),
     head |-> head, jsonLen |-> JsonStringLength(size, esc),
     xlsx |-> xlsx, office |-> office]

NotAString ==
    [ok |-> FALSE, id |-> 0, size |-> 0, b64len |-> 0, head |-> "", jsonLen |-> 0,
     xlsx |-> NoWorkbook, office |-> OfficeAnswer("error", "")]

---------------------------------------------------------------------------
(* Classification helpers *)

textTypes ==
    {"text/", "application/json", "application/xml", "application/javascript",
     "application/typescript", "application/x-python", "application/x-sh",
     "application/sql"}

textExtensions ==
    {".txt", ".md", ".csv", ".log", ".ini", ".cfg", ".conf",
     ".html", ".htm", ".xml", ".json", ".js", ".ts", ".py",
     ".sh", ".bash", ".sql", ".css", ".scss", ".less",
     ".yaml", ".yml", ".toml", ".properties", ".env"}

\* The content-analysis branch of isTextContent (sample of the decoded bytes)
sniffText(contentBytes) ==
    LET sampleContent == contentBytes.head
    IN \/ strIncludes(sampleContent, "<!DOCTYPE html>")
       \/ strIncludes(sampleContent, "<html>")
       \/ strIncludes(sampleContent, "<?xml")
       \/ startsWith(sampleContent, "{")
       \/ startsWith(sampleContent, "[")

textByContentType(contentType) ==
    /\ Truthy(contentType)
    /\ LET lowerContentType == toLowerCase(contentType[1])
       IN \E type \in textTypes : startsWith(lowerContentType, type)

textByExtension(filename) ==
    Truthy(filename) /\ extOf(filename[1]) \in textExtensions

textByContent(contentType, contentBytes) ==
    /\ ~Truthy(contentType) \/ trim(contentType[1]) = ""
    /\ contentBytes.ok
    /\ sniffText(contentBytes)

isTextContent(contentType, filename, contentBytes) ==
    \/ textByContentType(contentType)
    \/ textByExtension(filename)
    \/ textByContent(contentType, contentBytes)

excelMimeTypes ==
    {"application/vnd.openxmlformats-officedocument.spreadsheetml.sheet",
     "application/vnd.ms-excel",
     "application/vnd.openxmlformats-officedocument.spreadsheetml.template",
     "application/vnd.ms-excel.sheet.macroEnabled.12",
     "application/vnd.ms-excel.template.macroEnabled.12",
     "application/vnd.ms-excel.addin.macroEnabled.12",
     "application/vnd.ms-excel.sheet.binary.macroEnabled.12"}

excelExtensions == {".xlsx", ".xls", ".xlsm", ".xltx", ".xltm", ".xlam", ".xlsb"}

excelByContentType(contentType) ==
    Truthy(contentType) /\ toLowerCase(contentType[1]) \in excelMimeTypes

excelByExtension(filename) ==
    Truthy(filename) /\ extOf(filename[1]) \in excelExtensions

isExcelFile(contentType, filename) ==
    excelByContentType(contentType) \/ excelByExtension(filename)

officeMimeTypes ==
    {"application/pdf",
     "application/vnd.openxmlformats-officedocument.wordprocessingml.document",
     "application/msword",
     "application/vnd.openxmlformats-officedocument.wordprocessingml.template",
     "application/vnd.ms-word.document.macroEnabled.12",
     "application/vnd.ms-word.template.macroEnabled.12",
     "application/vnd.openxmlformats-officedocument.presentationml.presentation",
     "application/vnd.ms-powerpoint",
     "application/vnd.openxmlformats-officedocument.presentationml.template",
     "application/vnd.openxmlformats-officedocument.presentationml.slideshow",
     "application/vnd.ms-powerpoint.addin.macroEnabled.12",
     "application/vnd.ms-powerpoint.presentation.macroEnabled.12",
     "application/vnd.ms-powerpoint.template.macroEnabled.12",
     "application/vnd.ms-powerpoint.slideshow.macroEnabled.12",
     "application/vnd.oasis.opendocument.text",
     "application/vnd.oasis.opendocument.presentation",
     "application/vnd.oasis.opendocument.spreadsheet",
     "application/rtf",
     "text/rtf"}

officeExtensions ==
    {".pdf", ".doc", ".docx", ".docm", ".dotx", ".dotm",
     ".ppt", ".pptx", ".pptm", ".potx", ".potm", ".ppsx", ".ppsm", ".ppam",
     ".odt", ".odp", ".ods", ".rtf"}

officeByContentType(contentType) ==
    Truthy(contentType) /\ toLowerCase(contentType[1]) \in officeMimeTypes

officeByExtension(filename) ==
    Truthy(filename) /\ extOf(filename[1]) \in officeExtensions

isOfficeDocument(contentType, filename) ==
    officeByContentType(contentType) \/ officeByExtension(filename)

---------------------------------------------------------------------------
(* JavaScript objects with optional fields are functions on field names *)

Has(o, k) == k \in DOMAIN o

Put(o, k, v) == (k :> v) @@ o

Delete(o, k) == [f \in DOMAIN o \ {k} |-> o[f]]

\* A JavaScript string value held in a field that may also hold an object:
\* its text (or the start of it), its length and the length of its JSON form
StringValue(text, length, jsonLen) ==
    [type |-> "string", text |-> text, length |-> length, jsonLen |-> jsonLen]

IsObject(v) == v.type # "string"

Min(a, b) == IF a < b THEN a ELSE b

---------------------------------------------------------------------------
(* Spreadsheet parser.  XLSX.read yields a workbook, or throws; a workbook *)
(* is [sheets: sequence of worksheets, compact, pretty]; a worksheet is    *)
(* [name, ref] with ref = NoRef when the sheet has no '!ref' range, else   *)
(* the decoded range [sr, er, sc, ec] (0-based, inclusive).                *)

NoRef == [none |-> TRUE]

Range(sr, er, sc, ec) == [sr |-> sr, er |-> er, sc |-> sc, ec |-> ec]

\* XLSX.utils.decode_range(worksheet['!ref'] || 'A1:A1')
sheetRange(worksheet) ==
    IF worksheet.ref = NoRef THEN Range(0, 0, 0, 0) ELSE worksheet.ref

\* XLSX.utils.sheet_to_json(worksheet, {header: 1, range}): the number of rows
\* of the returned array. A sheet without '!ref' yields []; with header: 1
\* every row of the range, blank or not, yields one entry.
sheetToJsonLength(worksheet, rowsToProcess, totalRows) ==
    IF worksheet.ref = NoRef THEN 0
    ELSE IF rowsToProcess < totalRows
         THEN (worksheet.ref.sr + rowsToProcess - 1) - worksheet.ref.sr + 1
         ELSE worksheet.ref.er - worksheet.ref.sr + 1

\* The body of the for loop of parseExcelContent: one sheetInfo
sheetInfoOf(worksheet, maxRowsPerSheet) ==
    LET range == sheetRange(worksheet)
        totalRows == range.er - range.sr + 1
        totalCols == range.ec - range.sc + 1
        rowsToProcess == Min(totalRows, maxRowsPerSheet)
    IN [name |-> worksheet.name,
        dimensions |-> [rows |-> totalRows, columns |-> totalCols],
        truncated |-> rowsToProcess < totalRows,
        displayedRows |-> sheetToJsonLength(worksheet, rowsToProcess, totalRows),
        hasNote |-> rowsToProcess < totalRows]

\* worksheet['!ref'].split(':') throws on a sheet without '!ref' that is to be cut
sheetThrows(worksheet, maxRowsPerSheet) ==
    LET range == sheetRange(worksheet)
        totalRows == range.er - range.sr + 1
    IN worksheet.ref = NoRef /\ Min(totalRows, maxRowsPerSheet) < totalRows

excelError(message) ==
    [type |-> "excel_error",
     error |-> "Failed to parse Excel file: " \o message,
     note |-> "File may be corrupted or in an unsupported Excel format"]

parseExcelContent(contentBytes, filename, maxSheets, maxRowsPerSheet) ==
    IF ~contentBytes.ok THEN excelError("The first argument must be of type string")
    ELSE IF contentBytes.xlsx.throws THEN excelError(contentBytes.xlsx.message)
    ELSE LET names == contentBytes.xlsx.sheets
             sheetsToProcess == SubSeq(names, 1, Min(Len(names), maxSheets))
         IN IF \E i \in 1..Len(sheetsToProcess) :
                    sheetThrows(sheetsToProcess[i], maxRowsPerSheet)
            THEN excelError("Cannot read properties of undefined")
            ELSE [type |-> "excel",
                  filename |-> filename,
                  sheets |-> [i \in 1..Len(sheetsToProcess) |->
                                  sheetInfoOf(sheetsToProcess[i], maxRowsPerSheet)],
                  totalSheets |-> Len(names),
                  summaryNote |-> Len(names) > maxSheets,
                  compact |-> contentBytes.xlsx.compact,
                  pretty |-> contentBytes.xlsx.pretty]

---------------------------------------------------------------------------
(* Office document parser.  officeParser.parseOffice(buffer, callback)     *)
(* answers in one of these ways (contentBytes.office.kind):                *)
(*   "error"  callback(undefined, err)                                     *)
(*   "data"   callback(text)                                               *)
(*   "nodata" callback(undefined)                                          *)
(*   "throw"  it throws before returning, inside the promise executor      *)

officeError(message) ==
    [type |-> "office_error",
     error |-> "Failed to parse office document: " \o message,
     note |-> "File may be corrupted, password-protected, or in an unsupported format"]

\* Mutant: a text of exactly maxTextLength characters is cut as well
officeResultCutAtLimit(data, filename, maxTextLength) ==
    LET truncated == Len(data) >= maxTextLength
    IN [type |-> "office_document",
        filename |-> filename,
        content |-> [text |-> IF truncated
                              THEN SubSeq(data, 1, maxTextLength) \o "..."
                              ELSE data,
                     extractedLength |-> Len(data),
                     truncated |-> truncated,
                     truncatedLength |-> IF truncated THEN <<maxTextLength>> ELSE Null],
        metadata |-> [textLength |-> Len(data), hasContent |-> Len(data) > 0]]

\* The callback's success branch
officeResult(data, filename, maxTextLength) ==
    LET extractedText == data
        textLength == Len(extractedText)
        truncated == textLength > maxTextLength
        displayText == IF truncated
                       THEN SubSeq(extractedText, 1, maxTextLength) \o "..."
                       ELSE extractedText
    IN [type |-> "office_document",
        filename |-> filename,
        content |-> [text |-> displayText,
                     extractedLength |-> textLength,
                     truncated |-> truncated,
                     truncatedLength |-> IF truncated THEN <<maxTextLength>> ELSE Null],
        metadata |-> [textLength |-> textLength, hasContent |-> textLength > 0]]

Rejected(message) == [type |-> "rejected", message |-> message]

\* What the promise returned by parseOfficeDocument settles to
parseOfficeDocument(contentBytes, filename, maxTextLength) ==
    IF ~contentBytes.ok THEN officeError("The first argument must be of type string")
    ELSE CASE contentBytes.office.kind = "error" -> officeError(contentBytes.office.message)
           [] contentBytes.office.kind = "data" ->
                  officeResult(contentBytes.office.text, filename, maxTextLength)
           [] contentBytes.office.kind = "nodata" -> officeResult("", filename, maxTextLength)
           [] contentBytes.office.kind = "throw" -> Rejected(contentBytes.office.message)

---------------------------------------------------------------------------
(* decodeAttachmentContent *)

DefaultMaxSheets == 10

DefaultMaxRowsPerSheet == 1000

DefaultMaxTextLength == 50000

DefaultMaxTextSize == 1048576

\* Upper bound on the length of a generated one-line summary or note
SummaryLength == 120

Summary(text) == StringValue(text, SummaryLength, SummaryLength + 2)

decodeError(contentBytes, message) ==
    [type |-> "error",
     content |-> Summary("[Failed to decode content]"),
     contentBytes |-> contentBytes,
     encoding |-> "base64_fallback",
     error |-> message]

decodeText(contentBytes, maxTextSize) ==
    IF contentBytes.size <= maxTextSize
    THEN [type |-> "text",
          content |-> StringValue(contentBytes.head, contentBytes.size, contentBytes.jsonLen),
          size |-> contentBytes.size,
          encoding |-> "utf8"]
    ELSE [type |-> "text",
          content |-> Summary("[Text file too large to display]"),
          contentBytes |-> contentBytes,
          size |-> contentBytes.size,
          encoding |-> "base64_preserved",
          note |-> "File exceeds display limit, use contentBytes for full content"]

decodeExcel(contentBytes, filename) ==
    [type |-> "excel",
     content |-> parseExcelContent(contentBytes, filename[1],
                                   DefaultMaxSheets, DefaultMaxRowsPerSheet),
     size |-> contentBytes.size,
     encoding |-> "parsed",
     contentBytes |-> contentBytes,
     note |-> "Excel file parsed and data extracted. Use contentBytes for raw file access."]

decodeOffice(contentBytes, officeData) ==
    [type |-> "office",
     content |-> officeData,
     size |-> contentBytes.size,
     encoding |-> "parsed",
     contentBytes |-> contentBytes,
     note |-> "Office document parsed and text extracted. Use contentBytes for raw file access."]

\* Mutant: content that matches no rule is decoded as text
decodeUnmatchedAsText(contentBytes) ==
    [type |-> "text",
     content |-> StringValue(contentBytes.head, contentBytes.size, contentBytes.jsonLen),
     size |-> contentBytes.size,
     encoding |-> "utf8"]

decodeBinary(contentBytes) ==
    [type |-> "binary",
     content |-> Summary("[Binary file]"),
     contentBytes |-> contentBytes,
     size |-> contentBytes.size,
     encoding |-> "base64",
     note |-> "Binary file preserved as Base64"]

\* A null filename is passed on unchanged; the parsers only echo it
nameOf(filename) == IF filename = Null THEN <<"">> ELSE filename

\* Mutant: the spreadsheet test is made before the text test
decodeAttachmentContentExcelFirst(contentBytes, contentType, filename, maxTextSize) ==
    IF ~contentBytes.ok
    THEN decodeError(contentBytes, "The first argument must be of type string")
    ELSE IF isExcelFile(contentType, filename)
    THEN decodeExcel(contentBytes, nameOf(filename))
    ELSE IF isTextContent(contentType, filename, contentBytes)
    THEN decodeText(contentBytes, maxTextSize)
    ELSE decodeBinary(contentBytes)

decodeAttachmentContent(contentBytes, contentType, filename, maxTextSize) ==
    IF ~contentBytes.ok
    THEN decodeError(contentBytes, "The first argument must be of type string")
    ELSE IF isTextContent(contentType, filename, contentBytes)
    THEN decodeText(contentBytes, maxTextSize)
    ELSE IF isExcelFile(contentType, filename)
    THEN decodeExcel(contentBytes, nameOf(filename))
    ELSE IF isOfficeDocument(contentType, filename)
    THEN LET officeData == parseOfficeDocument(contentBytes, nameOf(filename)[1],
                                               DefaultMaxTextLength)
         IN IF officeData.type = "rejected"
            THEN decodeError(contentBytes, officeData.message)
            ELSE decodeOffice(contentBytes, officeData)
    ELSE decodeBinary(contentBytes)

---------------------------------------------------------------------------
(* Classification: decodeAttachmentContent applied to one attachment *)

Idle == [type |-> "idle"]

ClassifyContentTypes ==
    {Null, Str(""), Str(" "), Str("text/plain"), Str("TEXT/HTML"), Str("text/rtf"),
     Str("application/json; charset=utf-8"), Str("application/octet-stream"),
     Str("image/png"), Str("Application/PDF")}
    \cup {Str(m) : m \in excelMimeTypes} \cup {Str(m) : m \in officeMimeTypes}

ClassifyFilenames ==
    {Null, Str(""), Str("report"), Str("xlsx"), Str("notes.txt"), Str("report.xlsx"),
     Str("REPORT.XLSX"), Str("contract.pdf"), Str("letter.docx"), Str("data.ods"),
     Str("memo.rtf"), Str("archive.tar.gz"), Str(".env"), Str("photo.png"),
     Str("table.xls.csv"), Str("trailing.")}

\* Leading decoded bytes: a zip container, a PDF, JSON, XML, HTML
ClassifyHeads == {"PK", "%PDF-1.7", "{\"a\":1}", "<?xml version", " <html>"}

HeadSize == 64

ClassifyContents ==
    {Content(1, HeadSize, h, 0, NoWorkbook, OfficeAnswer("nodata", "")) : h \in ClassifyHeads}
    \cup {NotAString}

InitClassify ==
    /\ cin \in [contentBytes : ClassifyContents,
                contentType : ClassifyContentTypes,
                filename : ClassifyFilenames]
    /\ cout = Pending
    /\ pin = Idle /\ pout = Idle /\ req = << >> /\ fs = Idle /\ now = 0 /\ dl = Idle
    /\ sw = Idle /\ fr = Idle /\ em = Idle /\ pr = Idle /\ prom = Idle /\ conc = Idle /\ srv = Idle

Classify ==
    /\ cout = Pending
    /\ cout' = decodeAttachmentContent(cin.contentBytes, cin.contentType, cin.filename,
                                       DefaultMaxTextSize)
    /\ UNCHANGED <<srv, conc, prom, pr, em, sw, fr, cin, pin, pout, req, fs, now, dl>>

NextClassify == Classify

SpecClassify == InitClassify /\ [][NextClassify]_vars

\* The category of a decoded attachment
CategoryOf(decoded) ==
    CASE decoded.type = "text" -> "text"
      [] decoded.type = "excel" -> "spreadsheet"
      [] decoded.type = "office" -> "office-document"
      [] decoded.type = "binary" -> "binary"
      [] OTHER -> "none"

Classified == cout # Pending /\ CategoryOf(cout) # "none"

\* C2 (as claimed): the category is that of the first matching rule in the order
\* spreadsheet MIME type, spreadsheet extension, office-document MIME type,
\* office-document extension, textual MIME prefix, textual extension, content
\* sniffing, else binary.
ClaimedCategory(contentBytes, contentType, filename) ==
    IF excelByContentType(contentType) THEN "spreadsheet"
    ELSE IF excelByExtension(filename) THEN "spreadsheet"
    ELSE IF officeByContentType(contentType) THEN "office-document"
    ELSE IF officeByExtension(filename) THEN "office-document"
    ELSE IF textByContentType(contentType) THEN "text"
    ELSE IF textByExtension(filename) THEN "text"
    ELSE IF textByContent(contentType, contentBytes) THEN "text"
    ELSE "binary"

C2_FirstMatchingRuleInClaimedOrder ==
    Classified =>
        CategoryOf(cout) = ClaimedCategory(cin.contentBytes, cin.contentType, cin.filename)

\* The categories whose known MIME set holds the declared type, and those whose
\* known extension set holds the filename's extension
MimeCategories(contentType) ==
    {c \in {"text", "spreadsheet", "office-document"} :
        \/ c = "text" /\ textByContentType(contentType)
        \/ c = "spreadsheet" /\ excelByContentType(contentType)
        \/ c = "office-document" /\ officeByContentType(contentType)}

ExtCategories(filename) ==
    {c \in {"text", "spreadsheet", "office-document"} :
        \/ c = "text" /\ textByExtension(filename)
        \/ c = "spreadsheet" /\ excelByExtension(filename)
        \/ c = "office-document" /\ officeByExtension(filename)}

\* The MIME type names one category and the extension another
MimeAndExtensionDisagree ==
    /\ Cardinality(MimeCategories(cin.contentType)) = 1
    /\ Cardinality(ExtCategories(cin.filename)) = 1
    /\ MimeCategories(cin.contentType) # ExtCategories(cin.filename)

TestOrder == <<"text", "spreadsheet", "office-document">>

FirstTested(categories) ==
    TestOrder[CHOOSE i \in 1..3 :
                 /\ TestOrder[i] \in categories
                 /\ \A j \in 1..(i - 1) : TestOrder[j] \notin categories]

---------------------------------------------------------------------------
(* The parsers applied to one document *)

\* Longest extracted text, and largest maxTextLength argument
MaxExtracted == 5

\* Largest row index of a sheet range, and largest maxRowsPerSheet argument less one
MaxRowIndex == 2

\* Most sheets in a workbook
MaxBookSheets == 2

Letters == "abcdefghijklmnopqrstuvwxyz"

ExtractedTexts == {SubSeq(Letters, 1, n) : n \in 0..MaxExtracted}

OfficeAnswers ==
    {OfficeAnswer("data", t) : t \in ExtractedTexts}
    \cup {OfficeAnswer(k, "") : k \in {"error", "nodata", "throw"}}

SheetRefs ==
    {NoRef} \cup {Range(sr, er, 0, ec) : sr \in 0..MaxRowIndex, er \in 0..MaxRowIndex,
                                         ec \in 0..1}

Worksheets == {[name |-> "Sheet", ref |-> r] : r \in {x \in SheetRefs : x = NoRef \/ x.sr <= x.er}}

Workbooks ==
    {NoWorkbook} \cup
    UNION {{Workbook(ws, 2, 2) : ws \in [1..n -> Worksheets]} : n \in 0..MaxBookSheets}

InitParse ==
    /\ \/ \E a \in OfficeAnswers, m \in 0..MaxExtracted :
             pin = [parser |-> "office",
                    contentBytes |-> Content(1, HeadSize, "%PDF-1.7", 0, NoWorkbook, a),
                    filename |-> "contract.pdf",
                    maxTextLength |-> m]
       \/ \E w \in Workbooks, ms \in 0..MaxBookSheets, mr \in 0..(MaxRowIndex + 1) :
             pin = [parser |-> "excel",
                    contentBytes |-> Content(1, HeadSize, "PK", 0, w, OfficeAnswer("error", "")),
                    filename |-> "report.xlsx",
                    maxSheets |-> ms,
                    maxRowsPerSheet |-> mr]
    /\ pout = Pending
    /\ cin = Idle /\ cout = Idle /\ req = << >> /\ fs = Idle /\ now = 0 /\ dl = Idle
    /\ sw = Idle /\ fr = Idle /\ em = Idle /\ pr = Idle /\ prom = Idle /\ conc = Idle /\ srv = Idle

ParseOffice ==
    /\ pout = Pending /\ pin.parser = "office"
    /\ pout' = parseOfficeDocument(pin.contentBytes, pin.filename, pin.maxTextLength)
    /\ UNCHANGED <<srv, conc, prom, pr, em, sw, fr, cin, cout, pin, req, fs, now, dl>>

ParseExcel ==
    /\ pout = Pending /\ pin.parser = "excel"
    /\ pout' = parseExcelContent(pin.contentBytes, pin.filename, pin.maxSheets,
                                 pin.maxRowsPerSheet)
    /\ UNCHANGED <<srv, conc, prom, pr, em, sw, fr, cin, cout, pin, req, fs, now, dl>>

NextParse == ParseOffice \/ ParseExcel

SpecParse == InitParse /\ [][NextParse]_vars

\* The text the extraction routine handed to the callback
ExtractedText ==
    IF pin.contentBytes.office.kind = "data" THEN pin.contentBytes.office.text ELSE ""

\* C8: parseOfficeDocument marks the result truncated exactly when the extracted
\* text is longer than maxTextLength; then the text is its first maxTextLength
\* characters followed by "..." and extractedLength is the full length; a text of
\* at most maxTextLength characters is returned verbatim with truncated = FALSE.
C8_TruncatedExactlyWhenLonger ==
    pout.type = "office_document" =>
        /\ pout.content.truncated = (Len(ExtractedText) > pin.maxTextLength)
        /\ pout.content.extractedLength = Len(ExtractedText)
        /\ Len(ExtractedText) > pin.maxTextLength =>
               pout.content.text = SubSeq(ExtractedText, 1, pin.maxTextLength) \o "..."
        /\ Len(ExtractedText) <= pin.maxTextLength =>
               pout.content.text = ExtractedText

\* C8 witness: a text one character longer than the limit has been cut
C8_Witness ==
    /\ pout.type = "office_document"
    /\ pin.maxTextLength > 0
    /\ Len(ExtractedText) = pin.maxTextLength + 1
    /\ pout.content.truncated
    /\ Len(pout.content.text) = pin.maxTextLength + 3

\* C9 (as claimed): every sheet with fewer rows than maxRowsPerSheet, an empty
\* sheet included, has truncated = FALSE and a displayed row count equal to the
\* row count of its dimensions.
C9_ShortSheetShownInFull ==
    pout.type = "excel" =>
        \A i \in 1..Len(pout.sheets) :
            pout.sheets[i].dimensions.rows < pin.maxRowsPerSheet =>
                /\ ~pout.sheets[i].truncated
                /\ pout.sheets[i].displayedRows = pout.sheets[i].dimensions.rows

---------------------------------------------------------------------------
(* File output utility.                                                    *)
(* A string is [kind |-> "string", id, chars, utf8, pad]: its length in    *)
(* UTF-16 units, its UTF-8 byte length and, for Base64 text, the number of *)
(* trailing '=' characters.  A buffer is [kind |-> "buffer", id, enc, len]:*)
(* len bytes, namely string id read under encoding enc.                    *)

StringContent(id, chars, utf8, pad) ==
    [kind |-> "string", id |-> id, chars |-> chars, utf8 |-> utf8, pad |-> pad]

BufferOf(id, enc, len) == [kind |-> "buffer", id |-> id, enc |-> enc, len |-> len]

\* The Base64 string that encodes n bytes
Base64String(id, n) == StringContent(id, Base64Length(n), Base64Length(n), (3 - (n % 3)) % 3)

\* Buffer.from(content, 'base64').length
base64DecodedLength(content) == ((content.chars - content.pad) * 3) \div 4

\* Buffer.byteLength(content, 'utf8')
byteLength(content) == content.utf8

TmpDir == "/tmp"

\* getWorkDirectory: the directory, and the file system after a possible mkdir
getWorkDirectory(f) ==
    LET workDir == IF Truthy(f.env) THEN f.env[1] ELSE TmpDir
    IN IF workDir \in f.exists THEN [dir |-> workDir, fs |-> f]
       ELSE IF workDir \in f.creatable
            THEN [dir |-> workDir,
                  fs |-> [f EXCEPT !.exists = @ \cup {workDir},
                                   !.writable = @ \cup {workDir}]]
            ELSE [dir |-> TmpDir, fs |-> f]

\* path.extname for a name without directory part
extname(name) ==
    LET dot == lastIndexOf(name, ".")
    IN IF dot <= 0 THEN "" ELSE substring(name, dot)

\* path.basename(name, ext) for a name without directory part
basename(name, ext) ==
    IF ext # "" /\ Len(name) > Len(ext) THEN SubSeq(name, 1, Len(name) - Len(ext)) ELSE name

\* generateUniqueFilename with Date.now() = timestamp and the six base-36 digits random
generateUniqueFilename(originalName, prefix, timestamp, random) ==
    IF Truthy(originalName)
    THEN LET ext == extname(originalName[1])
             base == basename(originalName[1], ext)
         IN prefix \o "_" \o base \o "_" \o ToString(timestamp) \o "_" \o random \o ext
    ELSE prefix \o "_file_" \o ToString(timestamp) \o "_" \o random

\* path.join(workDir, uniqueFilename)
pathJoin(dir, name) == dir \o "/" \o name

\* The buffer saveFileToDisc writes
bufferToWrite(content, encoding) ==
    IF content.kind = "buffer" THEN content
    ELSE IF encoding = "base64"
    THEN BufferOf(content.id, "base64", base64DecodedLength(content))
    ELSE BufferOf(content.id, "utf8", byteLength(content))

\* Math.round(base64Content.length * 0.75)
approximateDecodedSize(content) == (content.chars * 3 + 2) \div 4

\* Mutant: content of exactly maxSize bytes is saved to a file as well
shouldSaveToFileAtLimit(content, maxSize) ==
    (IF content.kind = "string" THEN byteLength(content) ELSE content.len) >= maxSize

shouldSaveToFile(content, maxSize) ==
    LET contentSize == IF content.kind = "string" THEN byteLength(content) ELSE content.len
    IN contentSize > maxSize

inlineResult(content, encoding) ==
    [savedToFile |-> FALSE,
     content |-> content,
     size |-> IF content.kind = "string" THEN byteLength(content) ELSE content.len,
     encoding |-> encoding]

saveFailure(filename, encoding, message) ==
    [success |-> FALSE,
     error |-> "Failed to save file: " \o message,
     filename |-> filename,
     encoding |-> encoding]

---------------------------------------------------------------------------
(* Two concurrent calls into the file output utility: request 1 calls      *)
(* handleLargeContent, request 2 calls saveBase64File.  A call runs to its *)
(* first await (StartX), then the write completes (WriteDone), then the    *)
(* stat (StatDone).                                                        *)

Requests == {1, 2}

\* The maxSize option under test; contents are sized around it
SmallLimit == 4

\* Math.random() suffixes that may be drawn
MaxRandom == 2

\* Milliseconds the clock may advance
MaxClock == 1

RandomSuffixes == <<"k3x9ab", "0p4qzz", "zz81ma", "7hq2c0">>

WorkDir == "/work"

\* Strings and buffers whose byte length is just below, at and just above SmallLimit
SaveContents ==
    {StringContent(10 + u, u, u, 0) : u \in (SmallLimit - 1)..(SmallLimit + 1)}
    \cup {StringContent(20 + u, u - 1, u, 0) : u \in SmallLimit..(SmallLimit + 1)}
    \cup {Base64String(30 + n, n) : n \in {0, SmallLimit - 2, SmallLimit, SmallLimit + 1}}
    \cup {BufferOf(40 + n, "binary", n) : n \in SmallLimit..(SmallLimit + 1)}

SaveFilenames == {Null, Str("report.xlsx")}

EmptyDisk == [p \in {} |-> 0]

FsConfigs ==
    {[env |-> e, exists |-> x, writable |-> w, creatable |-> c, full |-> f,
      files |-> EmptyDisk] :
        e \in {Null, Str(WorkDir)}, x \in {{TmpDir}, {TmpDir, WorkDir}},
        w \in {{TmpDir}, {TmpDir, WorkDir}}, c \in {{}, {WorkDir}}, f \in BOOLEAN}

\* Directories that do not exist are neither writable nor pre-existing and creatable
FsReachable ==
    {f \in FsConfigs : f.writable \subseteq f.exists /\ f.creatable \cap f.exists = {}
                       /\ (f.full => f.env = Null /\ f.exists = {TmpDir} /\ f.creatable = {})
                       /\ (f.env = Null => f.exists = {TmpDir} /\ f.creatable = {})}

NotStarted == [pc |-> "idle"]

InitSave ==
    /\ req = [r \in Requests |-> NotStarted]
    /\ fs \in FsReachable
    /\ now = 0
    /\ cin = Idle /\ cout = Idle /\ pin = Idle /\ pout = Idle /\ dl = Idle
    /\ sw = Idle /\ fr = Idle /\ em = Idle /\ pr = Idle /\ prom = Idle /\ conc = Idle /\ srv = Idle

\* saveFileToDisc up to its first await: directory, filename, buffer
beginSave(r, op, content, filename, encoding, originalSize, random, maxSize, forceFile) ==
    LET wd == getWorkDirectory(fs)
        uniqueFilename == generateUniqueFilename(filename, "outlook", now, random)
    IN /\ fs' = wd.fs
       /\ req' = [req EXCEPT ![r] =
              [pc |-> "write", op |-> op, content |-> content, filename |-> filename,
               encoding |-> encoding, maxSize |-> maxSize, forceFile |-> forceFile,
               workDir |-> wd.dir, uniqueFilename |-> uniqueFilename,
               filePath |-> pathJoin(wd.dir, uniqueFilename),
               buffer |-> bufferToWrite(content, encoding),
               originalSize |-> originalSize]]

StartHandleLargeContent(r) ==
    /\ r = 1 /\ req[r].pc = "idle"
    /\ \E content \in SaveContents, filename \in SaveFilenames,
          maxSize \in {0, SmallLimit}, forceFile \in BOOLEAN, k \in 1..MaxRandom :
          LET encoding == IF content.kind = "string" /\ content.id >= 30
                          THEN "base64" ELSE IF content.kind = "string" THEN "utf8"
                          ELSE "binary"
          IN IF forceFile \/ shouldSaveToFile(content, maxSize)
             THEN beginSave(r, "handleLargeContent", content, filename, encoding, Null,
                            RandomSuffixes[k], maxSize, forceFile)
             ELSE /\ k = 1
                  /\ req' = [req EXCEPT ![r] =
                         [pc |-> "done", op |-> "handleLargeContent", content |-> content,
                          filename |-> filename, encoding |-> encoding,
                          maxSize |-> maxSize, forceFile |-> forceFile,
                          result |-> inlineResult(content, encoding)]]
                  /\ fs' = fs
    /\ UNCHANGED <<srv, conc, prom, pr, em, sw, fr, cin, cout, pin, pout, now, dl>>

StartSaveBase64File(r) ==
    /\ r = 2 /\ req[r].pc = "idle"
    /\ \E n \in {SmallLimit - 2, SmallLimit + 1}, filename \in SaveFilenames, k \in 1..MaxRandom :
          LET content == Base64String(30 + n, n)
          IN beginSave(r, "saveBase64File", content, filename, "base64",
                       <<approximateDecodedSize(content)>>, RandomSuffixes[k], 0, FALSE)
    /\ UNCHANGED <<srv, conc, prom, pr, em, sw, fr, cin, cout, pin, pout, now, dl>>

\* What the caller gets: handleLargeContent adds savedToFile to the file info
finish(r, fileInfo) ==
    IF req[r].op = "handleLargeContent" THEN Put(fileInfo, "savedToFile", TRUE) ELSE fileInfo

\* await fs.promises.writeFile(filePath, buffer)
WriteDone(r) ==
    /\ req[r].pc = "write"
    /\ IF req[r].workDir \in fs.exists /\ req[r].workDir \in fs.writable /\ ~fs.full
       THEN /\ fs' = [fs EXCEPT !.files =
                         Put(@, req[r].filePath,
                             [buffer |-> req[r].buffer, mtime |-> now, writer |-> r])]
            /\ req' = [req EXCEPT ![r].pc = "stat"]
       ELSE /\ fs' = fs
            /\ req' = [req EXCEPT ![r] = Put(Put(@, "pc", "done"), "result",
                          finish(r, saveFailure(req[r].filename, req[r].encoding,
                                                "EACCES or ENOSPC")))]
    /\ UNCHANGED <<srv, conc, prom, pr, em, sw, fr, cin, cout, pin, pout, now, dl>>

\* The fileInfo saveFileToDisc returns for a file of the given stat size
fileInfoOf(r, statSize) ==
    [success |-> TRUE,
     filePath |-> req[r].filePath,
     filename |-> req[r].uniqueFilename,
     originalFilename |-> req[r].filename,
     size |-> statSize,
     originalSize |-> IF req[r].originalSize # Null /\ req[r].originalSize[1] # 0
                      THEN req[r].originalSize[1] ELSE statSize,
     encoding |-> req[r].encoding,
     workDirectory |-> req[r].workDir]

\* await fs.promises.stat(filePath), and the return
StatDone(r) ==
    /\ req[r].pc = "stat"
    /\ req' = [req EXCEPT ![r] = Put(Put(@, "pc", "done"), "result",
                  IF req[r].filePath \in DOMAIN fs.files
                  THEN finish(r, fileInfoOf(r, fs.files[req[r].filePath].buffer.len))
                  ELSE finish(r, saveFailure(req[r].filename, req[r].encoding, "ENOENT")))]
    /\ UNCHANGED <<srv, conc, prom, pr, em, sw, fr, cin, cout, pin, pout, fs, now, dl>>

Tick ==
    /\ now < MaxClock
    /\ now' = now + 1
    /\ UNCHANGED <<srv, conc, prom, pr, em, sw, fr, cin, cout, pin, pout, req, fs, dl>>

NextSave ==
    \/ \E r \in Requests : StartHandleLargeContent(r)
    \/ \E r \in Requests : StartSaveBase64File(r)
    \/ \E r \in Requests : WriteDone(r)
    \/ \E r \in Requests : StatDone(r)
    \/ Tick

SpecSave == InitSave /\ [][NextSave]_vars

\* The byte length of a content: UTF-8 bytes of a string, length of a buffer
ContentBytes(content) == IF content.kind = "string" THEN content.utf8 ELSE content.len

WroteAFile(r) == \E p \in DOMAIN fs.files : fs.files[p].writer = r

\* C5: without forceFile, handleLargeContent returns content of at most maxSize
\* bytes (exactly maxSize included) inline and unchanged and writes no file; content
\* of maxSize + 1 bytes or more always takes the save-to-file path.
C5_InlineUpToMaxSizeSpillAbove ==
    \A r \in Requests :
        req[r].pc # "idle" /\ req[r].op = "handleLargeContent" /\ ~req[r].forceFile =>
            /\ ContentBytes(req[r].content) <= req[r].maxSize =>
                   /\ req[r].pc = "done"
                   /\ ~req[r].result.savedToFile
                   /\ req[r].result.content = req[r].content
                   /\ req[r].result.size = ContentBytes(req[r].content)
                   /\ ~WroteAFile(r)
            /\ ContentBytes(req[r].content) >= req[r].maxSize + 1 =>
                   /\ Has(req[r], "filePath")
                   /\ req[r].pc = "done" => req[r].result.savedToFile

\* C5 witness: content of exactly maxSize bytes came back inline
C5_Witness ==
    \E r \in Requests :
        /\ req[r].pc = "done" /\ req[r].op = "handleLargeContent" /\ ~req[r].forceFile
        /\ req[r].maxSize > 0
        /\ ContentBytes(req[r].content) = req[r].maxSize
        /\ ~req[r].result.savedToFile

\* The bytes a save is meant to write: the decoded bytes of the content passed in
DecodedBytes(content, encoding) ==
    IF content.kind = "buffer" THEN content
    ELSE IF encoding = "base64"
    THEN BufferOf(content.id, "base64", ((content.chars - content.pad) * 3) \div 4)
    ELSE BufferOf(content.id, "utf8", content.utf8)

\* C6 (as claimed): every save that returns success reports as size the number of
\* bytes on disk at filePath, and those bytes are the decoded bytes of the content
\* that was passed in.
C6_ReportedSizeIsBytesWritten ==
    [][\A r \in Requests :
          req[r].pc = "stat" /\ req'[r].pc = "done" /\ req'[r].result.success =>
              /\ req'[r].result.filePath \in DOMAIN fs'.files
              /\ req'[r].result.size = fs'.files[req'[r].result.filePath].buffer.len
              /\ fs'.files[req'[r].result.filePath].buffer =
                     DecodedBytes(req[r].content, req[r].encoding)]_vars

\* C7 (as claimed): no two saves are given the same file path.
C7_PathsNeverCollide ==
    \A r1, r2 \in Requests :
        r1 # r2 /\ Has(req[r1], "filePath") /\ Has(req[r2], "filePath") =>
            req[r1].filePath # req[r2].filePath

---------------------------------------------------------------------------
(* downloadAttachmentTool.  One call, advanced from await to await:        *)
(*   "called" -> "auth" -> "metadata" -> "content" -> "parsing" ->         *)
(*   "saving" -> "returned"                                                *)
(* dl.attachment is the attachment as the mail API holds it.               *)

FileAttachment == "#microsoft.graph.fileAttachment"

ItemAttachment == "#microsoft.graph.itemAttachment"

ReferenceAttachment == "#microsoft.graph.referenceAttachment"

maxMcpResponseSize == 1048576

\* Upper bound on the serialized length of the metadata, notes and file info of a response
EnvelopeOverhead == 2048

\* createValidationError(field, message)
validationError(field) ==
    [kind |-> "validation_error", isError |-> TRUE, field |-> field,
     textLength |-> SummaryLength]

\* convertErrorToToolError(error, context)
toolError(error) ==
    [kind |-> "tool_error", isError |-> TRUE, error |-> error, textLength |-> SummaryLength]

\* An exception that leaves downloadAttachmentTool
Thrown(error) == [kind |-> "thrown", isError |-> TRUE, error |-> error, textLength |-> 0]

\* Mutant: the outer catch passes the exception on
outerCatchRethrows(error) == Thrown(error)

\* catch (error) of downloadAttachmentTool
outerCatch(error) == toolError(error)

\* JSON.stringify(value).length (pretty = FALSE) or JSON.stringify(value, null, 2).length
jsonLength(value, pretty) ==
    CASE value.type = "string" -> value.jsonLen
      [] value.type = "excel" -> IF pretty THEN value.pretty ELSE value.compact
      [] value.type = "office_document" -> Len(value.content.text) + SummaryLength
      [] value.type = "item" -> IF pretty THEN value.pretty ELSE value.compact
      [] OTHER -> 2 * SummaryLength

\* JSON.stringify(info, null, 2).length
infoLength(info) ==
    EnvelopeOverhead
    + (IF Has(info, "content") THEN jsonLength(info.content, TRUE) ELSE 0)
    + (IF Has(info, "contentBytes") THEN info.contentBytes.b64len + 2 ELSE 0)
    + (IF Has(info, "itemContent") THEN jsonLength(info.itemContent, TRUE) ELSE 0)

contentResponse(info) ==
    [kind |-> "content", isError |-> FALSE, info |-> info, textLength |-> infoLength(info)]

\* attachmentInfo as built from the metadata response
attachmentInfoOf(attachment) ==
    [name |-> attachment.name,
     contentType |-> attachment.contentType,
     attachmentType |-> attachment.odataType]

\* The fields the fileAttachment branch copies from the decoded content
withDecodedFile(info, decodedContent) ==
    LET a == Put(Put(Put(Put(info, "content", decodedContent.content),
                         "decodedContentType", decodedContent.type),
                     "encoding", decodedContent.encoding),
                 "contentIncluded", TRUE)
        b == IF Has(decodedContent, "contentBytes")
             THEN Put(a, "contentBytes", decodedContent.contentBytes) ELSE a
        c == IF Has(decodedContent, "note") THEN Put(b, "note", decodedContent.note) ELSE b
    IN IF Has(decodedContent, "error")
       THEN Put(c, "decodingError", decodedContent.error) ELSE c

\* The fields the unknown-type branch copies: no decodingError
withDecodedUnknown(info, decodedContent) ==
    Delete(withDecodedFile(info, decodedContent), "decodingError")

\* Mutant: the raw branch labels the content with a category as well
withRawClassified(info, contentBytes, withNote) ==
    Put(Put(Put(Put(info, "contentBytes", contentBytes), "contentIncluded", TRUE),
            "encoding", "base64"), "decodedContentType", "binary")

\* Raw Base64 content, decodeContent = false
withRaw(info, contentBytes, withNote) ==
    LET a == Put(Put(Put(info, "contentBytes", contentBytes), "contentIncluded", TRUE),
                 "encoding", "base64")
    IN IF withNote THEN Put(a, "note", "Raw Base64 content") ELSE a

withoutContent(info, contentError) ==
    Put(Put(info, "contentIncluded", FALSE), "contentError", contentError)

\* Mutant: the inner catch reports a failure without the upstream error
innerCatchAnonymous(info, contentError) ==
    Put(withoutContent(info, "Failed to download content"), "errorDetails", "")

\* catch (contentError)
innerCatch(info, contentError) ==
    Put(withoutContent(info, "Failed to download content: " \o contentError),
        "errorDetails", contentError)

\* The Base64 string of a content, as the file output utility sees it
asBase64String(contentBytes) ==
    IF contentBytes.ok
    THEN StringContent(contentBytes.id, contentBytes.b64len, contentBytes.b64len,
                       (3 - (contentBytes.size % 3)) % 3)
    ELSE StringContent(contentBytes.id, 0, 0, 0)

\* note of the response after a successful save
savedNote(fileResult) ==
    "Attachment content saved to file: " \o fileResult.filePath
    \o ". Use the file path to access the full content."

ParsedAlsoTruncated == " Parsed content also truncated due to size."

\* Mutant: parsed content of exactly half the limit is dropped as well
fileResponseInfoAtHalf(info, fileResult) ==
    LET a == Delete(Put(Put(Put(info, "contentSavedToFile", TRUE), "fileOutput", fileResult),
                        "note", savedNote(fileResult)),
                    "contentBytes")
    IN IF Has(info, "content") /\ IsObject(info.content)
          /\ 2 * jsonLength(info.content, FALSE) >= maxMcpResponseSize
       THEN Put(Put(Delete(a, "content"), "parsedContentTruncated", TRUE),
                "note", a.note \o ParsedAlsoTruncated)
       ELSE a

\* The response after a successful save: contentBytes removed, large parsed content too
fileResponseInfo(info, fileResult) ==
    LET a == Delete(Put(Put(Put(info, "contentSavedToFile", TRUE), "fileOutput", fileResult),
                        "note", savedNote(fileResult)),
                    "contentBytes")
    IN IF Has(info, "content") /\ IsObject(info.content)
          /\ 2 * jsonLength(info.content, FALSE) > maxMcpResponseSize
       THEN Put(Put(Delete(a, "content"), "parsedContentTruncated", TRUE),
                "note", a.note \o ParsedAlsoTruncated)
       ELSE a

\* Mutant: the fallback keeps the parsed content
largeContentInfoKeepsContent(info, fileResult) ==
    Delete(Put(Put(Put(info, "contentTruncated", TRUE), "mcpLimitExceeded", TRUE),
               "fileSaveError", fileResult.error),
           "contentBytes")

\* The response after a failed save: contentBytes and content removed
largeContentInfo(info, fileResult) ==
    Delete(Delete(Put(Put(Put(info, "contentTruncated", TRUE), "mcpLimitExceeded", TRUE),
                      "fileSaveError", fileResult.error),
                  "contentBytes"),
           "content")

\* Lines 546-631 up to the await of saveBase64File, or to the return
finishDownload(info) ==
    IF infoLength(info) > maxMcpResponseSize /\ Has(info, "contentBytes")
    THEN /\ dl' = [pc |-> "saving", args |-> dl.args, attachment |-> dl.attachment,
                   requests |-> dl.requests, info |-> info]
         /\ \E k \in 1..MaxRandom :
                beginSave(1, "saveBase64File", asBase64String(info.contentBytes), info.name,
                          "base64", <<approximateDecodedSize(asBase64String(info.contentBytes))>>,
                          RandomSuffixes[k], 0, FALSE)
    ELSE /\ dl' = [pc |-> "returned", args |-> dl.args, attachment |-> dl.attachment,
                   requests |-> dl.requests, info |-> info,
                   response |-> contentResponse(info)]
         /\ UNCHANGED <<req, fs>>

returnError(response) ==
    /\ dl' = [pc |-> "returned", args |-> dl.args, attachment |-> dl.attachment,
              requests |-> dl.requests, response |-> response]
    /\ UNCHANGED <<req, fs>>

\* Parameter validation, then the call of ensureAuthenticated
DlCall ==
    /\ dl.pc = "called"
    /\ IF ~dl.args.messageId THEN returnError(validationError("messageId"))
       ELSE IF ~dl.args.attachmentId THEN returnError(validationError("attachmentId"))
       ELSE dl' = [dl EXCEPT !.pc = "auth"] /\ UNCHANGED <<req, fs>>
    /\ UNCHANGED <<srv, conc, prom, pr, em, sw, fr, cin, cout, pin, pout, now>>

\* What the mail API answers to a request: success (Null) or an error
UpstreamAnswers ==
    {Null, Str("ErrorItemNotFound"), Str("ErrorAccessDenied"), Str("TooManyRequests")}

\* graphApiClient.makeRequest: a request in flight and the answer it will get
makeRequest(request, answer) == [request |-> request, error |-> answer]

\* ensureAuthenticated settles; the metadata request is sent
DlAuth ==
    /\ dl.pc = "auth"
    /\ \E ok \in BOOLEAN :
          IF ok
          THEN /\ \E answer \in UpstreamAnswers :
                      dl' = [dl EXCEPT !.pc = "metadata",
                                       !.requests = Append(@, makeRequest("metadata", answer))]
               /\ UNCHANGED <<req, fs>>
          ELSE returnError(outerCatch("Authentication required"))
    /\ UNCHANGED <<srv, conc, prom, pr, em, sw, fr, cin, cout, pin, pout, now>>

\* The metadata request settles
DlMetadata ==
    /\ dl.pc = "metadata"
    /\ LET answer == dl.requests[Len(dl.requests)].error
       IN IF answer # Null THEN returnError(outerCatch(answer[1]))
          ELSE IF dl.args.includeContent
          THEN /\ \E next \in UpstreamAnswers :
                      dl' = [pc |-> "content", args |-> dl.args, attachment |-> dl.attachment,
                             requests |-> Append(dl.requests, makeRequest("content", next)),
                             info |-> attachmentInfoOf(dl.attachment)]
               /\ UNCHANGED <<req, fs>>
          ELSE finishDownload(withoutContent(attachmentInfoOf(dl.attachment),
                                             "Content download not requested"))
    /\ UNCHANGED <<srv, conc, prom, pr, em, sw, fr, cin, cout, pin, pout, now>>

\* (contentType, name) of the attachments downloaded: text, spreadsheet, office
\* document, and two without any recognisable type
DlTypes ==
    {<<Str("text/plain"), Str("notes.txt")>>, <<Str(""), Str("report.xlsx")>>,
     <<Str("application/pdf"), Str("contract.pdf")>>,
     <<Str("application/octet-stream"), Str("blob.bin")>>, <<Null, Null>>}

\* Decoded sizes: small, exactly the text display limit, one byte more
DlSizes == {HeadSize, DefaultMaxTextSize, DefaultMaxTextSize + 1}

OneSheet == <<[name |-> "Sheet1", ref |-> Range(0, 9, 0, 3)]>>

\* Workbooks whose parsed data is small, exactly half the limit when serialized
\* compactly, and one character more
DlWorkbooks ==
    {NoWorkbook, Workbook(OneSheet, SummaryLength, 2 * SummaryLength),
     Workbook(OneSheet, maxMcpResponseSize \div 2, 3 * maxMcpResponseSize),
     Workbook(OneSheet, maxMcpResponseSize \div 2 + 1, 3 * maxMcpResponseSize)}

DlOfficeAnswers ==
    {OfficeAnswer("error", ""), OfficeAnswer("data", "abc"), OfficeAnswer("throw", "")}

DlContents ==
    {Content(1, n, "PK", 0, w, o) : n \in DlSizes, w \in DlWorkbooks, o \in DlOfficeAnswers}

\* Only the library that is consulted for a type is varied
DlContentsFor(name) ==
    {x \in DlContents :
        /\ name # Str("report.xlsx") => x.xlsx = NoWorkbook
        /\ name # Str("contract.pdf") => x.office.kind = "error"}

DlFileLike(odataType) ==
    UNION {{[odataType |-> odataType, contentType |-> t[1], name |-> t[2],
             contentBytes |-> <<c>>, item |-> Null] : c \in DlContentsFor(t[2])} :
           t \in DlTypes}
    \cup {[odataType |-> odataType, contentType |-> Str("application/pdf"),
           name |-> Str("contract.pdf"), contentBytes |-> c, item |-> Null] :
             c \in {Null, <<NotAString>>}}

DlItems ==
    {[type |-> "item", compact |-> n, pretty |-> 2 * n] :
        n \in {SummaryLength, maxMcpResponseSize}}

DlAttachments ==
    DlFileLike(FileAttachment) \cup DlFileLike("#microsoft.graph.attachment")
    \cup {[odataType |-> ItemAttachment, contentType |-> Null, name |-> Str("Meeting"),
           contentBytes |-> Null, item |-> i] : i \in {Null} \cup {<<x>> : x \in DlItems}}
    \cup {[odataType |-> ReferenceAttachment, contentType |-> Null, name |-> Str("link"),
           contentBytes |-> Null, item |-> Null]}

DlArgs ==
    {[messageId |-> m, attachmentId |-> a, includeContent |-> i, decodeContent |-> d] :
        m \in BOOLEAN, a \in BOOLEAN, i \in BOOLEAN, d \in BOOLEAN}

\* The temp directory, writable or on a full disk
DlFs ==
    {[env |-> Null, exists |-> {TmpDir}, writable |-> {TmpDir}, creatable |-> {},
      full |-> f, files |-> EmptyDisk] : f \in BOOLEAN}

\* decodeAttachmentContent(contentBytes, contentType, name) of each attachment that
\* has content bytes, tabulated over the attachments downloaded
decodedContentOf ==
    [a \in {x \in DlAttachments : x.contentBytes # Null} |->
        decodeAttachmentContent(a.contentBytes[1], a.contentType, a.name,
                                DefaultMaxTextSize)]

\* decodeAttachmentContent reaches await parseOfficeDocument
awaitsOffice(contentBytes, contentType, filename) ==
    /\ contentBytes.ok
    /\ ~isTextContent(contentType, filename, contentBytes)
    /\ ~isExcelFile(contentType, filename)
    /\ isOfficeDocument(contentType, filename)

\* awaitsOffice, tabulated over the attachments downloaded
awaitsOfficeFor ==
    [a \in {x \in DlAttachments : x.contentBytes # Null} |->
        awaitsOffice(a.contentBytes[1], a.contentType, a.name)]

\* The info after the content response of a file or unknown-type attachment
\* whose contentBytes are to be decoded
decodedInfo(info, attachment) ==
    LET decodedContent == decodedContentOf[attachment]
    IN IF attachment.odataType = FileAttachment
       THEN withDecodedFile(info, decodedContent)
       ELSE withDecodedUnknown(info, decodedContent)

\* The content request settles
DlContent ==
    /\ dl.pc = "content"
    /\ LET a == dl.attachment
           answer == dl.requests[Len(dl.requests)].error
       IN IF answer # Null THEN finishDownload(innerCatch(dl.info, answer[1]))
          ELSE IF a.odataType = ItemAttachment
          THEN IF a.item # Null
               THEN finishDownload(Put(Put(Put(dl.info, "itemContent", a.item[1]),
                                           "contentIncluded", TRUE), "encoding", "json"))
               ELSE finishDownload(withoutContent(dl.info, "No item content available"))
          ELSE IF a.odataType = ReferenceAttachment
          THEN finishDownload(withoutContent(dl.info, "Reference attachment"))
          ELSE IF a.contentBytes = Null
          THEN finishDownload(withoutContent(dl.info,
                   IF a.odataType = FileAttachment THEN "No content bytes returned from API"
                   ELSE "Unsupported attachment type"))
          ELSE IF ~dl.args.decodeContent
          THEN finishDownload(withRaw(dl.info, a.contentBytes[1],
                                      a.odataType = FileAttachment))
          ELSE IF awaitsOfficeFor[a]
          THEN dl' = [dl EXCEPT !.pc = "parsing"] /\ UNCHANGED <<req, fs>>
          ELSE finishDownload(decodedInfo(dl.info, a))
    /\ UNCHANGED <<srv, conc, prom, pr, em, sw, fr, cin, cout, pin, pout, now>>

\* officeParser answers; decodeAttachmentContent returns
DlParsed ==
    /\ dl.pc = "parsing"
    /\ finishDownload(decodedInfo(dl.info, dl.attachment))
    /\ UNCHANGED <<srv, conc, prom, pr, em, sw, fr, cin, cout, pin, pout, now>>

DlWrite == dl.pc = "saving" /\ WriteDone(1)

DlStat == dl.pc = "saving" /\ StatDone(1)

\* Mutant: the call returns without waiting for the save to complete
DlSavedAbandons ==
    /\ dl.pc = "saving"
    /\ dl' = [pc |-> "returned", args |-> dl.args, attachment |-> dl.attachment,
              requests |-> dl.requests, info |-> dl.info,
              response |-> contentResponse(
                  IF req[1].pc = "done" /\ req[1].result.success
                  THEN fileResponseInfo(dl.info, req[1].result)
                  ELSE largeContentInfo(dl.info, [error |-> "Save abandoned"]))]
    /\ UNCHANGED <<srv, conc, prom, pr, em, sw, fr, cin, cout, pin, pout, req, fs, now>>

\* saveBase64File has returned
DlSaved ==
    /\ dl.pc = "saving" /\ req[1].pc = "done"
    /\ dl' = [pc |-> "returned", args |-> dl.args, attachment |-> dl.attachment,
              requests |-> dl.requests, info |-> dl.info,
              response |-> contentResponse(
                  IF req[1].result.success THEN fileResponseInfo(dl.info, req[1].result)
                  ELSE largeContentInfo(dl.info, req[1].result))]
    /\ UNCHANGED <<srv, conc, prom, pr, em, sw, fr, cin, cout, pin, pout, req, fs, now>>

InitDownload ==
    /\ dl \in [pc : {"called"}, args : DlArgs, attachment : DlAttachments,
                requests : {<< >>}]
    /\ fs \in DlFs
    /\ req = <<NotStarted>>
    /\ now = 0
    /\ cin = Idle /\ cout = Idle /\ pin = Idle /\ pout = Idle
    /\ sw = Idle /\ fr = Idle /\ em = Idle /\ pr = Idle /\ prom = Idle /\ conc = Idle /\ srv = Idle

NextDownload ==
    \/ DlCall
    \/ DlAuth
    \/ DlMetadata
    \/ DlContent
    \/ DlParsed
    \/ DlWrite
    \/ DlStat
    \/ DlSaved

SpecDownload == InitDownload /\ [][NextDownload]_vars

Returned == dl.pc = "returned"

\* C1 (as claimed): every response downloadAttachmentTool returns has a
\* serialized text of at most 1,048,576 bytes.
C1_ResponseWithinTransportLimit ==
    Returned => dl.response.textLength <= maxMcpResponseSize

ParseFailed ==
    /\ Has(dl, "info") /\ Has(dl.info, "decodedContentType")
    /\ LET c == dl.attachment.contentBytes[1]
       IN \/ dl.info.decodedContentType = "excel" /\ c.xlsx.throws
          \/ dl.info.decodedContentType = "office" /\ c.office.kind = "error"

TypedError(v) ==
    /\ IsObject(v) /\ v.type \in {"excel_error", "office_error"}
    /\ v.error # "" /\ v.note # ""

\* C10 (as claimed): when a spreadsheet or office document cannot be parsed, the
\* response is a non-error tool response with contentIncluded = TRUE that embeds
\* the parser's typed error result (non-empty error and note).
C10_ParseErrorEmbedded ==
    Returned /\ ParseFailed =>
        /\ dl.response.kind = "content" /\ ~dl.response.isError
        /\ dl.response.info.contentIncluded
        /\ Has(dl.response.info, "content")
        /\ TypedError(dl.response.info.content)

\* A file or unknown-type attachment whose content request succeeded and returned
\* contentBytes, downloaded with includeContent = true and decodeContent = false
RawRequested ==
    /\ Returned /\ dl.response.kind = "content"
    /\ dl.args.includeContent /\ ~dl.args.decodeContent
    /\ dl.attachment.odataType \notin {ItemAttachment, ReferenceAttachment}
    /\ dl.attachment.contentBytes # Null
    /\ ~Has(dl.response.info, "errorDetails")

\* C11 (as claimed): with decodeContent = false the envelope carries the upstream
\* Base64 bytes unchanged, encoding 'base64' and contentIncluded = TRUE, and has no
\* content and no decodedContentType field.
C11_RawBytesPassThrough ==
    RawRequested =>
        /\ Has(dl.response.info, "contentBytes")
        /\ dl.response.info.contentBytes = dl.attachment.contentBytes[1]
        /\ dl.response.info.encoding = "base64"
        /\ dl.response.info.contentIncluded
        /\ ~Has(dl.response.info, "content")
        /\ ~Has(dl.response.info, "decodedContentType")

\* C11 (amended): with decodeContent = false no classification or parsing takes
\* place: the envelope has encoding 'base64', contentIncluded = TRUE, and neither
\* content nor decodedContentType.  It carries the upstream Base64 bytes unchanged
\* exactly when its serialization is within the response limit; an oversized
\* envelope has the bytes removed and reports either the file they were saved to
\* or the save error.
C11_RawBytesPassThroughUnlessOversized ==
    RawRequested =>
        /\ dl.response.info.encoding = "base64"
        /\ dl.response.info.contentIncluded
        /\ ~Has(dl.response.info, "content")
        /\ ~Has(dl.response.info, "decodedContentType")
        /\ IF infoLength(dl.info) <= maxMcpResponseSize
           THEN /\ Has(dl.response.info, "contentBytes")
                /\ dl.response.info.contentBytes = dl.attachment.contentBytes[1]
           ELSE /\ ~Has(dl.response.info, "contentBytes")
                /\ \/ Has(dl.response.info, "contentSavedToFile")
                   \/ Has(dl.response.info, "fileSaveError")

\* C11 witness: a PDF downloaded raw came back as Base64, unparsed
C11_Witness ==
    /\ RawRequested
    /\ dl.attachment.name = Str("contract.pdf")
    /\ Has(dl.response.info, "contentBytes")
    /\ dl.response.info.contentBytes.size = HeadSize

\* The response was oversized and saveBase64File returned a failure
SpillFailed ==
    /\ Returned /\ req[1].pc = "done" /\ ~req[1].result.success

\* C12: when the response is oversized and writing the spill file fails, the tool
\* returns a non-error inline summary with mcpLimitExceeded = TRUE, contentTruncated =
\* TRUE and the save error message, without the raw bytes and without the parsed
\* content.
C12_SaveFailureFallsBackToSummary ==
    SpillFailed =>
        /\ dl.response.kind = "content" /\ ~dl.response.isError
        /\ Has(dl.response.info, "mcpLimitExceeded") /\ dl.response.info.mcpLimitExceeded
        /\ Has(dl.response.info, "contentTruncated") /\ dl.response.info.contentTruncated
        /\ dl.response.info.fileSaveError = req[1].result.error
        /\ dl.response.info.fileSaveError # ""
        /\ ~Has(dl.response.info, "contentBytes")
        /\ ~Has(dl.response.info, "content")

\* C12 witness: the disk was full while a parsed spreadsheet was being spilled
C12_Witness ==
    /\ SpillFailed /\ fs.full
    /\ Has(dl.info, "content") /\ Has(dl.info, "contentBytes")
    /\ dl.info.decodedContentType = "excel"
    /\ Has(dl.response.info, "fileSaveError")

\* The environment-provided directory is set and usable: writable, or creatable
EnvDirUsable ==
    /\ Truthy(fs.env)
    /\ fs.env[1] \in fs.writable \/ fs.env[1] \in fs.creatable

\* C13 (as claimed): a spill goes to the environment-provided directory when it is
\* set and usable, and to the platform temp directory when the variable is unset,
\* the directory cannot be created, or it exists but is unwritable; so a save
\* succeeds whenever the temp directory is writable.
C13_FallsBackToTempDirectory ==
    \A r \in Requests :
        Has(req[r], "workDir") =>
            /\ req[r].workDir = IF EnvDirUsable THEN fs.env[1] ELSE TmpDir
            /\ req[r].pc = "done" /\ TmpDir \in fs.writable /\ ~fs.full =>
                   req[r].result.success

\* The request that the mail API answered with an error, if any
FailedRequests == {i \in 1..Len(dl.requests) : dl.requests[i].error # Null}

---------------------------------------------------------------------------
(* cleanupOldFiles.  One sweep, advanced from await to await: readdir,     *)
(* then per prefixed entry stat and, for an old file, unlink.              *)

\* Modification times of the files found: 0..MaxMtime; the sweep runs one tick later
MaxMtime == 1

\* The maxAge arguments tried: 0..MaxSweepAge
MaxSweepAge == 2

SweepPrefix == "outlook_"

\* Names found in the directory: three written by saveFileToDisc (default prefix
\* with and without an original name, and the prefix option), two foreign files
SweepNames ==
    <<generateUniqueFilename(Str("report.xlsx"), "outlook", 0, RandomSuffixes[1]),
      generateUniqueFilename(Null, "outlook", 0, RandomSuffixes[2]),
      generateUniqueFilename(Str("site.docx"), "sharepoint", 0, RandomSuffixes[1]),
      "outlook.log",
      "notes.txt">>

\* The names written by saveFileToDisc
SpillNames == {SweepNames[k] : k \in 1..3}

fileNameOf(filePath) == substring(filePath, lastIndexOf(filePath, "/") + 1)

dirNameOf(filePath) == SubSeq(filePath, 1, lastIndexOf(filePath, "/"))

SweepFile(k, mtime) ==
    [buffer |-> BufferOf(k, "binary", 1), mtime |-> mtime, writer |-> 0]

\* The files of a directory: each candidate name absent or present with some mtime
DirectoryContents(dir) ==
    {[p \in {pathJoin(dir, SweepNames[k]) : k \in present} |->
          SweepFile(1, mt[CHOOSE k \in present : pathJoin(dir, SweepNames[k]) = p])] :
        present \in SUBSET (1..Len(SweepNames)), mt \in [1..Len(SweepNames) -> 0..MaxMtime]}

\* The work directory is the environment-provided one or the temp directory
SweepFs ==
    {[env |-> e, exists |-> {TmpDir, WorkDir}, writable |-> {TmpDir, WorkDir},
      creatable |-> {}, full |-> FALSE, files |-> f] :
        e \in {Null, Str(WorkDir)}, f \in DirectoryContents(WorkDir)}
    \cup {[env |-> Null, exists |-> {TmpDir}, writable |-> {TmpDir},
           creatable |-> {}, full |-> FALSE, files |-> f] :
             f \in DirectoryContents(TmpDir)}

InitSweep ==
    /\ fs \in SweepFs
    /\ now = MaxMtime + 1
    /\ \E maxAge \in 0..MaxSweepAge : sw = [pc |-> "idle", maxAge |-> maxAge]
    /\ cin = Idle /\ cout = Idle /\ pin = Idle /\ pout = Idle /\ dl = Idle
    /\ req = << >> /\ fr = Idle /\ em = Idle /\ pr = Idle /\ prom = Idle /\ conc = Idle /\ srv = Idle

\* fs.promises.readdir(workDir), in the order of SweepNames
readdir(workDir) ==
    SelectSeq(SweepNames, LAMBDA n : pathJoin(workDir, n) \in DOMAIN fs.files)

RECURSIVE nextPrefixed(_, _)
\* The loop up to its next await: entries without the prefix are skipped
nextPrefixed(files, i) ==
    IF i > Len(files) \/ startsWith(files[i], SweepPrefix) THEN i
    ELSE nextPrefixed(files, i + 1)

\* The state of the sweep when the loop continues at entry i
continueAt(s, i) ==
    LET j == nextPrefixed(s.files, i)
    IN IF j > Len(s.files)
       THEN Put(Put(s, "pc", "done"), "result", [cleaned |-> s.cleaned, workDir |-> s.workDir])
       ELSE Put(Put(s, "pc", "stat"), "i", j)

\* getWorkDirectory and readdir, which may fail as a whole
SweepStart ==
    /\ sw.pc = "idle"
    /\ LET wd == getWorkDirectory(fs)
       IN /\ fs' = wd.fs
          /\ \E ok \in BOOLEAN :
                LET s == [pc |-> "readdir", maxAge |-> sw.maxAge, workDir |-> wd.dir,
                          before |-> fs.files, cleaned |-> 0, perFileFailure |-> FALSE,
                          now |-> now, files |-> readdir(wd.dir), i |-> 1]
                IN IF ok THEN sw' = continueAt(s, 1)
                   ELSE sw' = Put(Put(s, "pc", "done"), "result",
                                  [cleaned |-> 0, error |-> "EACCES"])
    /\ UNCHANGED <<srv, conc, prom, pr, em, cin, cout, pin, pout, req, now, dl, fr>>

\* Mutant: a file of age exactly maxAge is removed as well
olderThanOrAt(sweepNow, mtime, maxAge) == sweepNow - mtime >= maxAge

\* now - stats.mtime.getTime() > maxAge
olderThan(sweepNow, mtime, maxAge) == sweepNow - mtime > maxAge

\* fs.promises.stat(filePath) and the age test
SweepStat ==
    /\ sw.pc = "stat"
    /\ LET filePath == pathJoin(sw.workDir, sw.files[sw.i])
       IN \E ok \in BOOLEAN :
             IF ok /\ filePath \in DOMAIN fs.files
             THEN IF olderThan(sw.now, fs.files[filePath].mtime, sw.maxAge)
                  THEN sw' = [sw EXCEPT !.pc = "unlink"]
                  ELSE sw' = continueAt(sw, sw.i + 1)
             ELSE sw' = continueAt([sw EXCEPT !.perFileFailure = TRUE], sw.i + 1)
    /\ UNCHANGED <<srv, conc, prom, pr, em, cin, cout, pin, pout, req, fs, now, dl, fr>>

\* fs.promises.unlink(filePath)
SweepUnlink ==
    /\ sw.pc = "unlink"
    /\ LET filePath == pathJoin(sw.workDir, sw.files[sw.i])
       IN \E ok \in BOOLEAN :
             IF ok
             THEN /\ fs' = [fs EXCEPT !.files = Delete(@, filePath)]
                  /\ sw' = continueAt([sw EXCEPT !.cleaned = @ + 1], sw.i + 1)
             ELSE /\ fs' = fs
                  /\ sw' = continueAt([sw EXCEPT !.perFileFailure = TRUE], sw.i + 1)
    /\ UNCHANGED <<srv, conc, prom, pr, em, cin, cout, pin, pout, req, now, dl, fr>>

NextSweep ==
    \/ SweepStart
    \/ SweepStat
    \/ SweepUnlink

SpecSweep == InitSweep /\ [][NextSweep]_vars

SweepDone == sw.pc = "done"

\* Age of a file at the time of the sweep
ageOf(file) == sw.now - file.mtime

\* What the sweep may not touch: files without the prefix, files of age <= maxAge
SweepKeepsOthers ==
    \A p \in DOMAIN sw.before :
        \/ ~startsWith(fileNameOf(p), SweepPrefix)
        \/ ageOf(sw.before[p]) <= sw.maxAge
        => p \in DOMAIN fs.files /\ fs.files[p] = sw.before[p]

---------------------------------------------------------------------------
(* Totality of the classification *)

FourCategories == {"text", "spreadsheet", "office-document", "binary"}

NoRuleMatches(contentBytes, contentType, filename) ==
    /\ ~isTextContent(contentType, filename, contentBytes)
    /\ ~isExcelFile(contentType, filename)
    /\ ~isOfficeDocument(contentType, filename)

---------------------------------------------------------------------------
(* FolderResolver.  fr holds the resolver object (foldersByName,           *)
(* foldersById, foldersList, lastCacheUpdate), the folder list the mail    *)
(* API currently holds (mailbox), and one call at a time, advanced from     *)
(* await to await.  now is Date.now() in milliseconds.                     *)

\* this.cacheExpiry
cacheExpiry == 5 * 60 * 1000

\* Date.now() when the resolver is constructed: later than cacheExpiry
StartTime == 1000000

\* Calls made on one resolver
MaxCalls == 2

\* Times the clock is advanced
MaxTicks == 2

\* The clock advances by a millisecond, or by exactly the cache expiry
TimeSteps == {1, cacheExpiry}

IdAlphabet == "ABCDEFGHIJKLMNOPQRSTUVWXYZabcdefghijklmnopqrstuvwxyz0123456789+/"

RECURSIVE matchesIdBody(_, _, _)
\* /^[A-Za-z0-9+/]+=*$/ from position i on; padding: whether '=' has been seen
matchesIdBody(str, i, padding) ==
    IF i > Len(str) THEN TRUE
    ELSE IF CharAt(str, i) = "=" THEN i > 1 /\ matchesIdBody(str, i + 1, TRUE)
    ELSE /\ ~padding
         /\ IndexIn(IdAlphabet, CharAt(str, i), 1) # 0
         /\ matchesIdBody(str, i + 1, FALSE)

\* folderIdRegex.test(folderNameOrId) && folderNameOrId.length > 20
looksLikeFolderId(str) == str # "" /\ matchesIdBody(str, 1, FALSE) /\ Len(str) > 20

Folder(id, displayName) == [id |-> id, displayName |-> displayName, parentFolderId |-> "root"]

\* Folders of the mailbox: ids are Base64 text, URL-safe in one case; one display
\* name is long and alphanumeric
BasbFolder == Folder("BBMkAGE1M2IyNGNmLWI3MjgtNDIwNS05YjB=", "BASB")

ProjectsFolder == Folder("AAMkAGVmMDEzMTM4LTZm-T7Kzow_TAAA=", "Projects")

ArchiveFolder == Folder("AAMkAGVmMDEzMTM4LTZmYWUtNDdkNC1hMDZi", "CustomerInvoicesArchive2023")

InboxFolder == Folder("AAMkAGVmMDEzMTM4LTZmYWUtAAAAAAEMAAA=", "Inbox")

\* result.value of GET /me/mailFolders; NoValue: the response has no value field
NoValue == [hasValue |-> FALSE, value |-> << >>]

Mailboxes ==
    {NoValue} \cup
    {[hasValue |-> TRUE, value |-> v] :
        v \in {<< >>, <<BasbFolder>>, <<BasbFolder, ProjectsFolder>>,
               <<InboxFolder, BasbFolder, ProjectsFolder, ArchiveFolder>>}}

\* if (result.value) result.value.forEach(...)
foldersOf(result) == IF result.hasValue THEN result.value ELSE << >>

FolderArgs ==
    {Null, Str(""), Str("inbox"), Str("INBOX"), Str("BASB"), Str("basb"), Str("bAsB"),
     Str("projects"), Str("CUSTOMERINVOICESARCHIVE2023"), Str("Missing"),
     Str(BasbFolder.id), Str(ProjectsFolder.id)}

AllFolders == {BasbFolder, ProjectsFolder, ArchiveFolder, InboxFolder}

\* The strings the resolver meets: arguments, display names and ids
FolderStrings ==
    {a[1] : a \in FolderArgs \ {Null}}
    \cup {f.displayName : f \in AllFolders} \cup {f.id : f \in AllFolders}

\* String.prototype.toLowerCase, tabulated over FolderStrings
lowerCaseOf == [str \in FolderStrings |-> toLowerCase(str)]

\* The folder id test, tabulated over FolderStrings
isFolderId == [str \in FolderStrings |-> looksLikeFolderId(str)]

RECURSIVE mapByKey(_, _, _)
\* Map.set under the lower-cased field, for each folder in order: a later
\* folder replaces an earlier one
mapByKey(folders, field, i) ==
    IF i = 0 THEN [k \in {} |-> 0]
    ELSE (lowerCaseOf[folders[i][field]] :> folders[i])
         @@ mapByKey(folders, field, i - 1)

RECURSIVE joinNames(_, _)
\* this.foldersList.map(f => f.displayName).join(', ')
joinNames(folders, i) ==
    IF i > Len(folders) THEN ""
    ELSE folders[i].displayName
         \o (IF i < Len(folders) THEN ", " ELSE "") \o joinNames(folders, i + 1)

\* Mutant: the message lists the first folder only
notFoundErrorFirstOnly(folderNameOrId, foldersList) ==
    [threw |-> "not found",
     message |-> "Folder '" \o folderNameOrId \o "' not found. Available folders: "
                 \o (IF foldersList = << >> THEN "" ELSE foldersList[1].displayName)]

\* new Error(`Folder '...' not found. Available folders: ...`)
notFoundError(folderNameOrId, foldersList) ==
    [threw |-> "not found",
     message |-> "Folder '" \o folderNameOrId \o "' not found. Available folders: "
                 \o joinNames(foldersList, 1)]

\* Mutant: the cache expires at exactly cacheExpiry
shouldRefreshCacheAtExpiry(resolver, dateNow) ==
    (dateNow - resolver.lastCacheUpdate) >= cacheExpiry \/ Len(resolver.foldersList) = 0

shouldRefreshCache(resolver, dateNow) ==
    (dateNow - resolver.lastCacheUpdate) > cacheExpiry \/ Len(resolver.foldersList) = 0

\* The resolver after a successful refreshFolderCache
refreshed(resolver, value, dateNow) ==
    LET folders == foldersOf(value)
    IN [foldersByName |-> mapByKey(folders, "displayName", Len(folders)),
        foldersById |-> mapByKey(folders, "id", Len(folders)),
        foldersList |-> folders,
        lastCacheUpdate |-> dateNow]

\* Mutant: the maps and the list are cleared before the request is awaited
refreshFailedAfterClear(resolver) ==
    [resolver EXCEPT !.foldersByName = [k \in {} |-> 0],
                     !.foldersById = [k \in {} |-> 0],
                     !.foldersList = << >>]

\* The resolver after a refreshFolderCache whose request threw: the catch
\* rethrows, and nothing was assigned before the await
refreshFailed(resolver) == resolver

\* new FolderResolver(graphApiClient)
NewResolver ==
    [foldersByName |-> [k \in {} |-> 0], foldersById |-> [k \in {} |-> 0],
     foldersList |-> << >>, lastCacheUpdate |-> 0]

\* this.foldersByName.get(folderNameOrId.toLowerCase())
lookUp(resolver, folderNameOrId) ==
    LET key == lowerCaseOf[folderNameOrId]
    IN IF key \in DOMAIN resolver.foldersByName
       THEN <<resolver.foldersByName[key]>> ELSE Null

NoCall == [pc |-> "idle"]

InitFolders ==
    /\ fr \in [resolver : {NewResolver}, mailbox : Mailboxes, changed : {FALSE},
               calls : {0}, ticks : {0}, call : {NoCall}]
    /\ now = StartTime
    /\ cin = Idle /\ cout = Idle /\ pin = Idle /\ pout = Idle /\ dl = Idle
    /\ req = << >> /\ fs = Idle /\ sw = Idle /\ em = Idle /\ pr = Idle /\ prom = Idle /\ conc = Idle /\ srv = Idle

\* A call that has ended
ended(call, outcome) == Put(Put(call, "pc", "done"), "outcome", outcome)

\* resolveFolderToId from a lookup on: stage 1 is the lookup after the optional
\* refresh, stage 2 the lookup after the second refresh
fromLookup(resolver, call, stage) ==
    LET folderInfo == lookUp(resolver, call.arg[1])
    IN IF folderInfo # Null THEN ended(call, [returned |-> folderInfo[1].id])
       ELSE IF stage = 1
       THEN Put(Put(call, "pc", "refresh2"), "requests", call.requests + 1)
       ELSE ended(call, notFoundError(call.arg[1], resolver.foldersList))

\* resolveFolderToId(folderNameOrId) up to its first await, or to its end
FolderCall ==
    /\ fr.call.pc \in {"idle", "done"} /\ fr.calls < MaxCalls
    /\ \E arg \in FolderArgs :
          LET call == [pc |-> "called", op |-> "resolveFolderToId", arg |-> arg,
                       expiredAtStart |-> now - fr.resolver.lastCacheUpdate > cacheExpiry,
                       listAtStart |-> fr.resolver.foldersList,
                       cachedAtStart |-> Truthy(arg) /\ lookUp(fr.resolver, arg[1]) # Null,
                       requests |-> 0, fetched |-> Null]
          IN fr' = [fr EXCEPT !.calls = @ + 1, !.call =
                 IF ~Truthy(arg)
                 THEN ended(call, [threw |-> "required",
                                   message |-> "Folder name or ID is required"])
                 ELSE IF lowerCaseOf[arg[1]] = "inbox" THEN ended(call, [returned |-> "inbox"])
                 ELSE IF isFolderId[arg[1]] THEN ended(call, [returned |-> arg[1]])
                 ELSE IF shouldRefreshCache(fr.resolver, now)
                 THEN Put(Put(call, "pc", "refresh1"), "requests", 1)
                 ELSE fromLookup(fr.resolver, call, 1)]
    /\ UNCHANGED <<srv, conc, prom, pr, em, cin, cout, pin, pout, req, fs, now, dl, sw>>

\* listAllFolders() up to its await, or to its end
FolderListCall ==
    /\ fr.call.pc \in {"idle", "done"} /\ fr.calls < MaxCalls
    /\ LET call == [pc |-> "called", op |-> "listAllFolders", arg |-> Null,
                    expiredAtStart |-> now - fr.resolver.lastCacheUpdate > cacheExpiry,
                    listAtStart |-> fr.resolver.foldersList,
                    cachedAtStart |-> FALSE, requests |-> 0, fetched |-> Null]
       IN fr' = [fr EXCEPT !.calls = @ + 1, !.call =
              IF shouldRefreshCache(fr.resolver, now)
              THEN Put(Put(call, "pc", "refreshList"), "requests", 1)
              ELSE ended(call, [listed |-> fr.resolver.foldersList])]
    /\ UNCHANGED <<srv, conc, prom, pr, em, cin, cout, pin, pout, req, fs, now, dl, sw>>

\* The folder-list request of refreshFolderCache settles, and the call runs on
FolderRefreshed ==
    /\ fr.call.pc \in {"refresh1", "refresh2", "refreshList"}
    /\ \E ok \in BOOLEAN :
          IF ~ok
          THEN fr' = [fr EXCEPT !.resolver = refreshFailed(@), !.call =
                         ended(@, [threw |-> "upstream", message |-> "TooManyRequests"])]
          ELSE LET resolver == refreshed(fr.resolver, fr.mailbox, now)
                   call == Put(fr.call, "fetched", <<foldersOf(fr.mailbox)>>)
               IN fr' = [fr EXCEPT !.resolver = resolver, !.call =
                      IF call.pc = "refreshList"
                      THEN ended(call, [listed |-> resolver.foldersList])
                      ELSE fromLookup(resolver, call, IF call.pc = "refresh1" THEN 1 ELSE 2)]
    /\ UNCHANGED <<srv, conc, prom, pr, em, cin, cout, pin, pout, req, fs, now, dl, sw>>

\* A folder is created, renamed or deleted in the mailbox
MailboxChange ==
    /\ ~fr.changed
    /\ \E m \in Mailboxes \ {fr.mailbox} : fr' = [fr EXCEPT !.mailbox = m, !.changed = TRUE]
    /\ UNCHANGED <<srv, conc, prom, pr, em, cin, cout, pin, pout, req, fs, now, dl, sw>>

\* Time passes
FolderTick ==
    /\ fr.ticks < MaxTicks
    /\ \E d \in TimeSteps : now' = now + d
    /\ fr' = [fr EXCEPT !.ticks = @ + 1]
    /\ UNCHANGED <<srv, conc, prom, pr, em, cin, cout, pin, pout, req, fs, dl, sw>>

NextFolders ==
    \/ FolderCall
    \/ FolderListCall
    \/ FolderRefreshed
    \/ MailboxChange
    \/ FolderTick

SpecFolders == InitFolders /\ [][NextFolders]_vars

\* A resolveFolderToId call is under way or has ended
Resolving == fr.call.pc # "idle" /\ fr.call.op = "resolveFolderToId"

Resolved == Resolving /\ fr.call.pc = "done"

\* The folder-list request failed and the call rethrew the error
UpstreamFailed ==
    Has(fr.call.outcome, "threw") /\ fr.call.outcome.threw = "upstream"

\* The argument is looked up as a name: not empty, not 'inbox', not taken for an id
LooksUpName ==
    /\ Truthy(fr.call.arg)
    /\ lowerCaseOf[fr.call.arg[1]] # "inbox"
    /\ ~isFolderId[fr.call.arg[1]]

\* C17: a call made at most cacheExpiry (5 minutes) after the last successful
\* refresh of a non-empty folder list, for a name present in the cache, issues no
\* folder-list request; a call made later than that which looks a name up issues
\* a refresh first, so that every lookup it makes is on a list fetched in the call.
C17_CacheHonouredForFiveMinutes ==
    Resolving =>
        /\ ~fr.call.expiredAtStart /\ fr.call.listAtStart # << >> /\ fr.call.cachedAtStart =>
               fr.call.requests = 0
        /\ fr.call.expiredAtStart /\ LooksUpName =>
               /\ fr.call.requests >= 1
               /\ fr.call.pc = "done" /\ ~UpstreamFailed => fr.call.fetched # Null

\* C17 witness: exactly five minutes after the refresh the name comes from the cache
C17_Witness ==
    /\ Resolved /\ LooksUpName
    /\ fr.resolver.foldersList # << >>
    /\ now - fr.resolver.lastCacheUpdate = cacheExpiry
    /\ fr.call.requests = 0
    /\ Has(fr.call.outcome, "returned")

\* C18 (as claimed): resolveFolderToId(id) returns id for every folder id in the
\* folder list of the mail API (no request has failed).
C18_FolderIdPassesThrough ==
    Resolved /\ fr.call.arg # Null /\ ~UpstreamFailed =>
        \A i \in 1..Len(foldersOf(fr.mailbox)) :
            foldersOf(fr.mailbox)[i].id = fr.call.arg[1] =>
                fr.call.outcome = [returned |-> fr.call.arg[1]]

\* C19 (as claimed): for every folder of the folder list and every upper/lower-case
\* variant of its display name, resolveFolderToId returns the id of that folder
\* (the folder list has not changed, no request has failed; the well-known name
\* 'inbox', which is returned as it is, aside).
C19_NameLookupCaseInsensitiveAndComplete ==
    Resolved /\ Truthy(fr.call.arg) /\ ~fr.changed /\ ~UpstreamFailed
    /\ lowerCaseOf[fr.call.arg[1]] # "inbox" =>
        \A i \in 1..Len(foldersOf(fr.mailbox)) :
            LET folder == foldersOf(fr.mailbox)[i]
            IN lowerCaseOf[folder.displayName] = lowerCaseOf[fr.call.arg[1]] =>
                   fr.call.outcome = [returned |-> folder.id]

NotFound == Resolved /\ Has(fr.call.outcome, "threw") /\ fr.call.outcome.threw = "not found"

\* C20: resolveFolderToId issues at most two folder-list requests, and fails with
\* 'not found' only for a name absent from a list fetched during the call; the
\* message then lists the display names of all folders of that list.
C20_NotFoundOnlyAfterFreshList ==
    /\ Resolving => fr.call.requests <= 2
    /\ NotFound =>
           /\ fr.call.requests >= 1
           /\ fr.call.fetched # Null
           /\ fr.resolver.foldersList = fr.call.fetched[1]
           /\ \A i \in 1..Len(fr.call.fetched[1]) :
                  lowerCaseOf[fr.call.fetched[1][i].displayName] # lowerCaseOf[fr.call.arg[1]]
           /\ fr.call.outcome.message =
                  "Folder '" \o fr.call.arg[1] \o "' not found. Available folders: "
                  \o joinNames(fr.call.fetched[1], 1)

\* C20 witness: the name is missing from a cache that was fresh, one refresh later
\* it is still missing from a list of several folders
C20_Witness ==
    /\ NotFound /\ ~fr.call.expiredAtStart /\ fr.call.listAtStart # << >>
    /\ fr.call.requests = 1
    /\ Len(fr.call.fetched[1]) >= 2

---------------------------------------------------------------------------
(* getEmailTool (tools/email/listEmails.js)                                *)
(*                                                                         *)
(* em is one call: the arguments, the position in the function and the     *)
(* response. The message is the object the mail API answers with.          *)

\* Length of the long body of the test 'should return truncated text by default'
LongBodyLength == 2000

RECURSIVE repeat(_, _)
\* String.prototype.repeat
repeat(str, count) ==
    IF count = 0 THEN ""
    ELSE LET half == repeat(str, count \div 2)
         IN half \o half \o (IF count % 2 = 1 THEN str ELSE "")

Undefined == [type |-> "undefined"]

Bool(b) == [type |-> "boolean", value |-> b]

Text(s) == [type |-> "string", value |-> s]

\* body of a message as the mail API returns it
Body(contentType, content) == [contentType |-> contentType, content |-> content]

EmailBodies ==
    {Body("html", "<p>" \o repeat("a", LongBodyLength) \o "</p>"),
     Body("html", "<p>Test Content</p>"),
     Body("html", "<div>Hi<br/>there &amp; all</div>"),
     Body("text", repeat("b", LongBodyLength)),
     Body("text", "See you at 10."),
     Body("text", "")}

\* The message with or without a body property
Emails ==
    {[id |-> "123", subject |-> "Test Email", body |-> <<b>>] : b \in EmailBodies}
    \cup {[id |-> "123", subject |-> "Test Email", body |-> << >>]}

EmailArgs ==
    [messageId : {Null, Str("123")},
     truncate : {Undefined, Bool(TRUE), Bool(FALSE)},
     format : {Undefined, Text("text"), Text("html")}]

\* emailData.body: email.body?.contentType || 'Text', email.body?.content || ''
bodyOf(email) ==
    [contentType |-> IF email.body # << >> /\ email.body[1].contentType # ""
                     THEN email.body[1].contentType ELSE "Text",
     content |-> IF email.body # << >> THEN email.body[1].content ELSE ""]

\* emailData as built from the response of the mail API
emailDataOf(email) ==
    [id |-> email.id, subject |-> email.subject, body |-> bodyOf(email)]

\* The response: JSON.stringify(emailData, null, 2) in one text item
emailResponse(emailData) ==
    [kind |-> "content", isError |-> FALSE, emailData |-> emailData]

InitEmail ==
    /\ em = [pc |-> "idle"]
    /\ cin = Idle /\ cout = Idle /\ pin = Idle /\ pout = Idle /\ dl = Idle
    /\ req = << >> /\ fs = Idle /\ now = 0
    /\ sw = Idle /\ fr = Idle /\ pr = Idle /\ prom = Idle /\ conc = Idle /\ srv = Idle

\* getEmailTool(authManager, args) up to ensureAuthenticated
EmailCall ==
    /\ em.pc = "idle"
    /\ \E args \in EmailArgs :
           IF ~Truthy(args.messageId)
           THEN em' = [pc |-> "done", args |-> args,
                       response |-> validationError("messageId")]
           ELSE em' = [pc |-> "auth", args |-> args]
    /\ UNCHANGED <<srv, conc, prom, pr, sw, fr, cin, cout, pin, pout, req, fs, now, dl>>

\* await authManager.ensureAuthenticated()
EmailAuth ==
    /\ em.pc = "auth"
    /\ \E ok \in BOOLEAN :
           IF ok THEN em' = [em EXCEPT !.pc = "request"]
           ELSE em' = [pc |-> "done", args |-> em.args,
                       response |-> toolError("Not authenticated")]
    /\ UNCHANGED <<srv, conc, prom, pr, sw, fr, cin, cout, pin, pout, req, fs, now, dl>>

\* await graphApiClient.makeRequest(`/me/messages/${messageId}`, options) and
\* the rest of the function: the request answers with the message
EmailFetched ==
    /\ em.pc = "request"
    /\ \E email \in Emails :
           em' = [pc |-> "done", args |-> em.args, email |-> email,
                  response |-> emailResponse(emailDataOf(email))]
    /\ UNCHANGED <<srv, conc, prom, pr, sw, fr, cin, cout, pin, pout, req, fs, now, dl>>

\* ... or the request answers with an MCP error response, which is returned,
\* or throws, which the catch converts
EmailFailed ==
    /\ em.pc = "request"
    /\ \E answer \in UpstreamAnswers \ {Null}, thrown \in BOOLEAN :
           em' = [pc |-> "done", args |-> em.args,
                  response |-> IF thrown THEN toolError(answer[1])
                               ELSE [kind |-> "mcp_error", isError |-> TRUE,
                                     error |-> answer[1]]]
    /\ UNCHANGED <<srv, conc, prom, pr, sw, fr, cin, cout, pin, pout, req, fs, now, dl>>

NextEmail ==
    \/ EmailCall
    \/ EmailAuth
    \/ EmailFetched
    \/ EmailFailed

SpecEmail == InitEmail /\ [][NextEmail]_vars

\* The call returned the message
EmailReturned == em.pc = "done" /\ em.response.kind = "content"

OnlyMessageId == em.args.truncate = Undefined /\ em.args.format = Undefined

FullHtmlRequested == em.args.truncate = Bool(FALSE) /\ em.args.format = Text("html")

\* The body as the mail API returned it
OriginalBody == bodyOf(em.email)

\* C21: called with only a messageId, getEmailTool returns the body as plain text,
\* shorter than the original when the body is long, with truncated = true; only
\* with truncate: false and format: 'html' is the HTML body returned unchanged
\* with no truncated field.
C21_TruncatedTextByDefault ==
    EmailReturned =>
        LET data == em.response.emailData
        IN /\ OnlyMessageId =>
                  /\ data.body.contentType = "text"
                  /\ ~strIncludes(data.body.content, "<p>")
                  /\ Len(OriginalBody.content) >= LongBodyLength =>
                         /\ Len(data.body.content) < Len(OriginalBody.content)
                         /\ Has(data, "truncated") /\ data.truncated = TRUE
           /\ (/\ OriginalBody.contentType = "html"
               /\ data.body = OriginalBody
               /\ ~Has(data, "truncated")) => FullHtmlRequested

---------------------------------------------------------------------------
(* MCP prompts (prompts/index.js)                                          *)
(*                                                                         *)
(* pr is one getPrompt call: name, args and how the promise settled. An    *)
(* argument value is Undefined (property absent) or Text(s).               *)

\* One declared argument of a prompt
PromptArgument(name, required) == [name |-> name, required |-> required]

\* PROMPTS: the declared arguments of each prompt
PROMPTS ==
    [check_recent_unread |-> << >>,
     draft_reply |-> <<PromptArgument("email_id", TRUE), PromptArgument("tone", FALSE)>>,
     summarize_schedule |-> << >>]

PromptNames ==
    DOMAIN PROMPTS \cup {"unknown_prompt", "", "Draft_Reply", "tone"}

PromptValues == {Undefined, Text(""), Text("123"), Text("casual")}

\* args as passed: no object (the default {} applies) or an object
PromptArgs ==
    {Undefined} \cup [email_id : PromptValues, tone : PromptValues]

\* A property of args after the default parameter value {} was applied
argOf(args, key) == IF args = Undefined THEN Undefined ELSE args[key]

\* Destructuring default: it applies to undefined only
withDefault(value, default) == IF value = Undefined THEN default ELSE value.value

\* !value for a string or undefined
Falsy(value) == value = Undefined \/ value.value = ""

userMessage(text) ==
    [messages |-> <<[role |-> "user", content |-> [type |-> "text", text |-> text]]>>]

Resolves(value) == [settled |-> "resolved", value |-> value]

Rejects(message) == [settled |-> "rejected", message |-> message]

\* case 'draft_reply' without the test of email_id
draftReplyUnchecked(args) ==
    LET email_id == argOf(args, "email_id")
        tone == withDefault(argOf(args, "tone"), "professional")
    IN Resolves(userMessage("Please draft a reply to email with ID \""
           \o withDefault(email_id, "undefined") \o "\". The tone should be " \o tone
           \o ". First, fetch the email content to understand the context, then draft the response."))

\* case 'draft_reply'
draftReply(args) ==
    IF Falsy(argOf(args, "email_id"))
    THEN Rejects("Argument \"email_id\" is required for prompt \"draft_reply\"")
    ELSE draftReplyUnchecked(args)

\* getPrompt(name, args = {})
getPrompt(name, args) ==
    CASE name = "check_recent_unread" ->
             Resolves(userMessage("Please check for unread emails received in the last 36 hours. Provide a high-level summary of these emails and highlight any that require immediate action."))
      [] name = "draft_reply" -> draftReply(args)
      [] name = "summarize_schedule" ->
             Resolves(userMessage("Please list my calendar events for today and provide a summary of my schedule. Identify any conflicts or free blocks."))
      [] OTHER -> Rejects("Prompt not found: " \o name)

InitPrompts ==
    /\ pr = [pc |-> "idle"]
    /\ cin = Idle /\ cout = Idle /\ pin = Idle /\ pout = Idle /\ dl = Idle
    /\ req = << >> /\ fs = Idle /\ now = 0
    /\ sw = Idle /\ fr = Idle /\ em = Idle /\ prom = Idle /\ conc = Idle /\ srv = Idle

\* One call of getPrompt
GetPrompt ==
    /\ pr.pc = "idle"
    /\ \E name \in PromptNames, args \in PromptArgs :
           pr' = [pc |-> "settled", name |-> name, args |-> args,
                  outcome |-> getPrompt(name, args)]
    /\ UNCHANGED <<srv, conc, prom, em, sw, fr, cin, cout, pin, pout, req, fs, now, dl>>

NextPrompts == GetPrompt

SpecPrompts == InitPrompts /\ [][NextPrompts]_vars

PromptSettled == pr.pc = "settled"

\* The required arguments PROMPTS declares for the prompt that are not supplied
MissingRequired ==
    {i \in 1..Len(PROMPTS[pr.name]) :
        PROMPTS[pr.name][i].required /\ Falsy(argOf(pr.args, PROMPTS[pr.name][i].name))}

\* C22: getPrompt resolves, to exactly one message with role 'user', exactly when
\* the name is declared in PROMPTS and every argument declared required is
\* supplied; another name rejects with 'Prompt not found', a missing required
\* argument rejects naming it, and an omitted tone is 'professional'.
C22_PromptResolvesExactlyWhenDeclaredAndComplete ==
    PromptSettled =>
        /\ pr.outcome.settled = "resolved"
               <=> (pr.name \in DOMAIN PROMPTS /\ MissingRequired = {})
        /\ pr.outcome.settled = "resolved" =>
               /\ Len(pr.outcome.value.messages) = 1
               /\ pr.outcome.value.messages[1].role = "user"
        /\ pr.name \notin DOMAIN PROMPTS =>
               startsWith(pr.outcome.message, "Prompt not found")
        /\ (pr.name \in DOMAIN PROMPTS /\ MissingRequired # {}) =>
               \E i \in MissingRequired :
                   strIncludes(pr.outcome.message,
                               "\"" \o PROMPTS[pr.name][i].name \o "\" is required")
        /\ (pr.outcome.settled = "resolved" /\ pr.name = "draft_reply"
            /\ argOf(pr.args, "tone") = Undefined) =>
               strIncludes(pr.outcome.value.messages[1].content.text,
                           "The tone should be professional.")

\* C22 witness: draft_reply with an email_id and no tone resolved
C22_Witness ==
    /\ PromptSettled /\ pr.name = "draft_reply" /\ pr.args # Undefined
    /\ pr.args.email_id = Text("123") /\ pr.args.tone = Undefined
    /\ pr.outcome.settled = "resolved"

---------------------------------------------------------------------------
(* Content sniffing as the last resort (SpecClassify) *)

\* The same content with other leading bytes
withHead(contentBytes, head) == [contentBytes EXCEPT !.head = head]

\* The declared MIME type or the extension is in a known set
MimeOrExtensionKnown ==
    MimeCategories(cin.contentType) \cup ExtCategories(cin.filename) # {}

\* C23: the leading bytes of the content influence the category only when neither
\* the MIME type nor the extension matches a known spreadsheet, office-document
\* or text set; with an empty MIME type and a spreadsheet or office-document
\* extension the attachment is never classified as text.
C23_SniffingOnlyAsLastResort ==
    Classified /\ cin.contentBytes.ok =>
        /\ MimeOrExtensionKnown =>
               \A head \in ClassifyHeads :
                   CategoryOf(decodeAttachmentContent(withHead(cin.contentBytes, head),
                                  cin.contentType, cin.filename, DefaultMaxTextSize))
                       = CategoryOf(cout)
        /\ (/\ ~Truthy(cin.contentType)
            /\ ExtCategories(cin.filename) \cap {"spreadsheet", "office-document"} # {})
               => CategoryOf(cout) # "text"

---------------------------------------------------------------------------
(* The spill decision for Base64 content (SpecSave) *)

\* C24: handleLargeContent measures Base64 content by its decoded byte length:
\* Base64 content whose decoded length is at most maxSize is returned inline, even
\* when the encoded string is longer than maxSize, and the inline result's size
\* is the decoded length.
C24_Base64MeasuredByDecodedLength ==
    \A r \in Requests :
        (/\ req[r].pc # "idle" /\ req[r].op = "handleLargeContent" /\ ~req[r].forceFile
         /\ req[r].content.kind = "string" /\ req[r].encoding = "base64"
         /\ base64DecodedLength(req[r].content) <= req[r].maxSize) =>
            /\ req[r].pc = "done"
            /\ ~req[r].result.savedToFile
            /\ req[r].result.size = base64DecodedLength(req[r].content)

---------------------------------------------------------------------------
(* The response after a successful spill (SpecDownload) *)

\* The response was oversized and saveBase64File wrote the file
SpillSucceeded ==
    /\ Returned /\ req[1].pc = "done" /\ req[1].result.success

\* JSON.stringify(attachmentInfo.content).length of the content before the spill
ParsedContentSize == jsonLength(dl.info.content, FALSE)

\* C25: after a successful spill the response has no contentBytes, and it has the
\* parsed content if and only if the serialized parsed content is at most half
\* the transport limit (524,288); when the content is dropped,
\* parsedContentTruncated = TRUE and the note says so, otherwise no flag is set.
C25_ParsedContentKeptUpToHalfLimit ==
    SpillSucceeded =>
        /\ dl.response.kind = "content"
        /\ ~Has(dl.response.info, "contentBytes")
        /\ Has(dl.info, "content") =>
               IF ParsedContentSize <= 524288
               THEN /\ Has(dl.response.info, "content")
                    /\ dl.response.info.content = dl.info.content
                    /\ ~Has(dl.response.info, "parsedContentTruncated")
                    /\ ~strIncludes(dl.response.info.note, "Parsed content also truncated")
               ELSE /\ ~Has(dl.response.info, "content")
                    /\ Has(dl.response.info, "parsedContentTruncated")
                    /\ dl.response.info.parsedContentTruncated
                    /\ strIncludes(dl.response.info.note, "Parsed content also truncated")

\* C25 witness: a spreadsheet whose parsed data serializes to exactly half the
\* limit was spilled and the parsed data stayed in the response
C25_Witness ==
    /\ SpillSucceeded
    /\ Has(dl.info, "content") /\ IsObject(dl.info.content)
    /\ ParsedContentSize = 524288
    /\ Has(dl.response.info, "content")

---------------------------------------------------------------------------
(* The promise returned by parseOfficeDocument.                            *)
(*                                                                         *)
(* prom follows one call: the executor passed to new Promise runs            *)
(* officeParser.parseOffice, which may invoke the callback (while it runs  *)
(* or later, more than once), may throw, or may return.  promise is the    *)
(* state of the promise, settlements the values it was settled with.       *)

\* Most invocations of the callback by the extraction routine
MaxCallbacks == 2

PendingPromise == [state |-> "pending"]

\* resolve(value) and reject(reason): the first settlement wins
settle(o, state, value) ==
    IF o.promise.state = "pending"
    THEN [o EXCEPT !.promise = [state |-> state, value |-> value],
                   !.settlements = Append(@, value)]
    ELSE o

\* What the callback passes to resolve
callbackValue(answer, filename, maxTextLength) ==
    CASE answer.kind = "error" -> officeError(answer.message)
      [] answer.kind = "data" -> officeResult(answer.text, filename, maxTextLength)
      [] answer.kind = "nodata" -> officeResult("", filename, maxTextLength)

InitOffice ==
    /\ \E ok \in BOOLEAN, m \in 0..MaxExtracted :
           prom = [pc |-> "idle", ok |-> ok, filename |-> "contract.pdf",
                 maxTextLength |-> m]
    /\ cin = Idle /\ cout = Idle /\ pin = Idle /\ pout = Idle /\ dl = Idle
    /\ req = << >> /\ fs = Idle /\ now = 0
    /\ sw = Idle /\ fr = Idle /\ em = Idle /\ pr = Idle /\ conc = Idle /\ srv = Idle

\* parseOfficeDocument up to the call of officeParser.parseOffice: Buffer.from
\* throws for contentBytes that is no string, and the catch returns a resolved promise
OfficeCall ==
    /\ prom.pc = "idle"
    /\ LET o == [pc |-> "executor", ok |-> prom.ok, filename |-> prom.filename,
                 maxTextLength |-> prom.maxTextLength, promise |-> PendingPromise,
                 settlements |-> << >>, callbacks |-> 0, threw |-> FALSE]
       IN IF prom.ok THEN prom' = o
          ELSE prom' = [settle(o, "resolved",
                             officeError("The first argument must be of type string"))
                      EXCEPT !.pc = "returned"]
    /\ UNCHANGED <<srv, conc, pr, em, sw, fr, cin, cout, pin, pout, req, fs, now, dl>>

\* The extraction routine invokes the callback, during parseOffice or later
OfficeCallback ==
    /\ prom.pc \in {"executor", "returned"} /\ prom.ok
    /\ prom.callbacks < MaxCallbacks
    /\ \E answer \in OfficeAnswers :
           /\ answer.kind # "throw"
           /\ prom' = [settle(prom, "resolved",
                            callbackValue(answer, prom.filename, prom.maxTextLength))
                     EXCEPT !.callbacks = @ + 1]
    /\ UNCHANGED <<srv, conc, pr, em, sw, fr, cin, cout, pin, pout, req, fs, now, dl>>

\* officeParser.parseOffice throws inside the executor: new Promise rejects
OfficeThrow ==
    /\ prom.pc = "executor"
    /\ prom' = [settle(prom, "rejected", Rejected("Unsupported file"))
              EXCEPT !.pc = "returned", !.threw = TRUE]
    /\ UNCHANGED <<srv, conc, pr, em, sw, fr, cin, cout, pin, pout, req, fs, now, dl>>

\* officeParser.parseOffice returns
OfficeReturn ==
    /\ prom.pc = "executor"
    /\ prom' = [prom EXCEPT !.pc = "returned"]
    /\ UNCHANGED <<srv, conc, pr, em, sw, fr, cin, cout, pin, pout, req, fs, now, dl>>

NextOffice ==
    \/ OfficeCall
    \/ OfficeCallback
    \/ OfficeThrow
    \/ OfficeReturn

SpecOffice == InitOffice /\ [][NextOffice]_vars

\* The extraction routine has produced an outcome: a callback or a throw
OfficeOutcome == prom.pc # "idle" /\ (~prom.ok \/ prom.callbacks > 0 \/ prom.threw)

\* C26: the promise returned by parseOfficeDocument settles exactly once and
\* always resolves: for every outcome of the extraction routine (callback with an
\* error, with data or without, a synchronous throw, a second callback) it
\* resolves to an office_document result or an office_error result with a note.
C26_PromiseAlwaysResolvesOnce ==
    OfficeOutcome =>
        /\ Len(prom.settlements) = 1
        /\ prom.promise.state = "resolved"
        /\ prom.promise.value.type \in {"office_document", "office_error"}
        /\ prom.promise.value.type = "office_error" => prom.promise.value.note # ""

---------------------------------------------------------------------------
(* Termination of downloadAttachmentTool.                                  *)
(*                                                                         *)
(* Every step of the call is either synchronous code or the continuation   *)
(* of an await, and the call is sequential: in every state at most one     *)
(* step is enabled.  Under the assumption that each awaited operation (the *)
(* authentication, an upstream request, the extraction callback, a disk    *)
(* write or stat) eventually completes or fails, the enabled step is       *)
(* eventually taken.                                                       *)

SpecDownloadLive == SpecDownload /\ WF_vars(NextDownload)

\* A parse or a disk write of the call is under way
ParseOrWriteUnderWay == dl.pc \in {"parsing", "saving"}

\* C27: every downloadAttachmentTool call eventually returns, the response it
\* returned is the only one, and a parse or disk write that has started is not
\* abandoned: the call returns only after the parse has settled and the save
\* has completed or failed.
C27_EventuallyReturnsOneResponse ==
    /\ <>Returned
    /\ [][Returned => dl' = dl]_vars
    /\ [][(dl.pc = "saving" /\ dl'.pc # "saving") =>
              (req[1].pc = "done" /\ Returned')]_vars
    /\ [][(dl.pc = "parsing" /\ dl'.pc # "parsing") =>
              Has(dl'.info, "decodedContentType")]_vars

\* C27 witness: an office document was parsed, the oversized response was spilled
\* to a file, and the call returned
C27_Witness ==
    /\ Returned /\ req[1].pc = "done" /\ req[1].result.success
    /\ Has(dl.info, "decodedContentType") /\ dl.info.decodedContentType = "office"

---------------------------------------------------------------------------
(* A failed refresh of the folder cache (SpecFolders) *)

\* The folder-list request of the call under way fails in this step
RefreshFails ==
    /\ fr.call.pc \in {"refresh1", "refresh2", "refreshList"}
    /\ fr'.call.pc = "done"
    /\ Has(fr'.call.outcome, "threw") /\ fr'.call.outcome.threw = "upstream"

---------------------------------------------------------------------------
(* One FolderResolver shared by concurrent calls.                          *)
(*                                                                         *)
(* conc holds the resolver, the response its last completed refresh stored *)
(* (stored, kept for the statement of the property only) and one call per  *)
(* caller.  A call advances from one await to the next in one step; the    *)
(* steps of different callers interleave freely.  The continuation of      *)
(* `await this.refreshFolderCache()` is a step of its own, after the step  *)
(* in which the response was stored.                                       *)

\* Number of concurrent callers
MaxCallers == 2

Callers == 1..MaxCallers

ConcArgs == {Str("BASB"), Str("Missing"), Str(BasbFolder.id)}

ConcResponses ==
    {NoValue, [hasValue |-> TRUE, value |-> <<BasbFolder>>],
     [hasValue |-> TRUE, value |-> <<BasbFolder, ProjectsFolder>>]}

NothingStored == [hasResponse |-> FALSE, response |-> NoValue]

InitConcurrent ==
    /\ conc = [resolver |-> NewResolver, stored |-> NothingStored,
               call |-> [c \in Callers |-> NoCall], ticked |-> FALSE]
    /\ now = StartTime
    /\ cin = Idle /\ cout = Idle /\ pin = Idle /\ pout = Idle /\ dl = Idle
    /\ req = << >> /\ fs = Idle
    /\ sw = Idle /\ fr = Idle /\ em = Idle /\ pr = Idle /\ prom = Idle /\ srv = Idle

\* Mutant: the maps and the list are cleared before the request is awaited
beforeResponseCleared(resolver) == refreshFailedAfterClear(resolver)

\* The resolver while the folder-list request is in flight: refreshFolderCache
\* assigns nothing before its await
beforeResponse(resolver) == resolver

\* A call of resolveFolderToId or getFolderInfo ends its resolveFolderToId part:
\* getFolderInfo goes on after its await
resolved(call, outcome) ==
    IF call.op = "getFolderInfo" /\ Has(outcome, "returned")
    THEN Put(Put(call, "pc", "byId"), "folderId", outcome.returned)
    ELSE ended(call, outcome)

\* The call sends the folder-list request and waits
awaitRefresh(c, call, pc) ==
    conc' = [conc EXCEPT !.resolver = beforeResponse(@),
                         !.call[c] = Put(call, "pc", pc)]

\* resolveFolderToId from the lookup by display name on
concLookup(c, call, stage) ==
    LET folderInfo == lookUp(conc.resolver, call.arg[1])
    IN IF folderInfo # Null
       THEN conc' = [conc EXCEPT !.call[c] = resolved(call, [returned |-> folderInfo[1].id])]
       ELSE IF stage = 1 THEN awaitRefresh(c, call, "refresh2")
       ELSE conc' = [conc EXCEPT !.call[c] =
                         ended(call, notFoundError(call.arg[1], conc.resolver.foldersList))]

\* resolveFolderToId(arg), called directly or by getFolderInfo, up to its first
\* await or to its end
ConcResolveCall(c) ==
    /\ conc.call[c].pc = "idle"
    /\ \E arg \in ConcArgs, op \in {"resolveFolderToId", "getFolderInfo"} :
          LET call == [pc |-> "called", op |-> op, arg |-> arg]
          IN IF isFolderId[arg[1]]
             THEN conc' = [conc EXCEPT !.call[c] = resolved(call, [returned |-> arg[1]])]
             ELSE IF shouldRefreshCache(conc.resolver, now)
             THEN awaitRefresh(c, call, "refresh1")
             ELSE concLookup(c, call, 1)
    /\ UNCHANGED <<srv, prom, pr, em, sw, fr, cin, cout, pin, pout, req, fs, now, dl>>

\* listAllFolders() up to its await or to its end
ConcListCall(c) ==
    /\ conc.call[c].pc = "idle"
    /\ LET call == [pc |-> "called", op |-> "listAllFolders", arg |-> Null]
       IN IF shouldRefreshCache(conc.resolver, now)
          THEN awaitRefresh(c, call, "refreshList")
          ELSE conc' = [conc EXCEPT !.call[c] =
                            ended(call, [listed |-> conc.resolver.foldersList])]
    /\ UNCHANGED <<srv, prom, pr, em, sw, fr, cin, cout, pin, pout, req, fs, now, dl>>

\* The folder-list request of a call settles: refreshFolderCache stores the
\* response or rethrows
ConcResponse(c) ==
    /\ conc.call[c].pc \in {"refresh1", "refresh2", "refreshList"}
    /\ \/ conc' = [conc EXCEPT !.resolver = refreshFailed(@), !.call[c] =
                       ended(@, [threw |-> "upstream", message |-> "TooManyRequests"])]
       \/ \E response \in ConcResponses :
              conc' = [conc EXCEPT
                          !.resolver = refreshed(@, response, now),
                          !.stored = [hasResponse |-> TRUE, response |-> response],
                          !.call[c] = Put(@, "pc",
                              CASE @.pc = "refresh1" -> "lookup1"
                                [] @.pc = "refresh2" -> "lookup2"
                                [] @.pc = "refreshList" -> "listing")]
    /\ UNCHANGED <<srv, prom, pr, em, sw, fr, cin, cout, pin, pout, req, fs, now, dl>>

\* The continuation after an await: the lookup by name, the lookup by id of
\* getFolderInfo, or the return of the list
ConcContinue(c) ==
    /\ conc.call[c].pc \in {"lookup1", "lookup2", "listing", "byId"}
    /\ LET call == conc.call[c]
       IN CASE call.pc = "lookup1" -> concLookup(c, call, 1)
            [] call.pc = "lookup2" -> concLookup(c, call, 2)
            [] call.pc = "listing" ->
                   conc' = [conc EXCEPT !.call[c] =
                               ended(call, [listed |-> conc.resolver.foldersList])]
            [] call.pc = "byId" ->
                   LET key == lowerCaseOf[call.folderId]
                   IN IF key \in DOMAIN conc.resolver.foldersById
                      THEN conc' = [conc EXCEPT !.call[c] =
                               ended(call, [info |-> conc.resolver.foldersById[key]])]
                      ELSE conc' = [conc EXCEPT !.call[c] = Put(call, "pc", "direct")]
    /\ UNCHANGED <<srv, prom, pr, em, sw, fr, cin, cout, pin, pout, req, fs, now, dl>>

\* The direct request of getFolderInfo settles
ConcDirect(c) ==
    /\ conc.call[c].pc = "direct"
    /\ \E ok \in BOOLEAN :
          conc' = [conc EXCEPT !.call[c] =
                      ended(@, IF ok THEN [info |-> Folder(@.folderId, "")]
                               ELSE [threw |-> "folder info", message |-> "ErrorItemNotFound"])]
    /\ UNCHANGED <<srv, prom, pr, em, sw, fr, cin, cout, pin, pout, req, fs, now, dl>>

\* Time passes beyond the life of the cache
ConcTick ==
    /\ ~conc.ticked
    /\ now' = now + cacheExpiry + 1
    /\ conc' = [conc EXCEPT !.ticked = TRUE]
    /\ UNCHANGED <<srv, prom, pr, em, sw, fr, cin, cout, pin, pout, req, fs, dl>>

NextConcurrent ==
    \/ \E c \in Callers : ConcResolveCall(c)
    \/ \E c \in Callers : ConcListCall(c)
    \/ \E c \in Callers : ConcResponse(c)
    \/ \E c \in Callers : ConcContinue(c)
    \/ \E c \in Callers : ConcDirect(c)
    \/ ConcTick

SpecConcurrent == InitConcurrent /\ [][NextConcurrent]_vars

\* Caller c may look a name up, or return the list, in its next step: the
\* continuation after the await of a refresh, or a new call that finds the
\* cache fresh.  (The read of foldersById by getFolderInfo is a lookup by id:
\* given an id, it follows no refresh and may find the cache never filled.)
LooksNameUp(c) ==
    \/ conc.call[c].pc \in {"lookup1", "lookup2", "listing"}
    \/ conc.call[c].pc = "idle" /\ ~shouldRefreshCache(conc.resolver, now)

\* The two maps and the list hold the complete content of the response stored last
HoldsOneResponse ==
    /\ conc.stored.hasResponse
    /\ LET folders == foldersOf(conc.stored.response)
       IN /\ conc.resolver.foldersList = folders
          /\ \A i \in 1..Len(folders) :
                 /\ lookUp(conc.resolver, folders[i].displayName) = <<folders[i]>>
                 /\ lowerCaseOf[folders[i].id] \in DOMAIN conc.resolver.foldersById
                 /\ conc.resolver.foldersById[lowerCaseOf[folders[i].id]] = folders[i]
          /\ \A k \in DOMAIN conc.resolver.foldersByName :
                 \E i \in 1..Len(folders) : conc.resolver.foldersByName[k] = folders[i]
          /\ \A k \in DOMAIN conc.resolver.foldersById :
                 \E i \in 1..Len(folders) : conc.resolver.foldersById[k] = folders[i]

\* C29: with calls interleaved at their await points on one shared resolver, no
\* call reads the cache cleared or partly filled: whenever a call may look a
\* name up, the two maps and the list hold the complete content of one
\* folder-list response, and every entry of either map is in foldersList.
C29_CacheReadOnlyWhenComplete ==
    (\E c \in Callers : LooksNameUp(c)) => HoldsOneResponse

\* C29 witness: one call is about to look its name up while the request of
\* another call is in flight, and the cache holds folders
C29_Witness ==
    /\ \E c, d \in Callers :
           /\ conc.call[c].pc \in {"lookup1", "lookup2"}
           /\ conc.call[d].pc \in {"refresh1", "refresh2", "refreshList"}
    /\ conc.resolver.foldersList # << >>
    /\ HoldsOneResponse

---------------------------------------------------------------------------
(* The tool-call handler of the server (CallToolRequestSchema).            *)
(*                                                                         *)
(* srv holds one call of the handler: the request, the tools it has called *)
(* and the state of the promise the async handler returns.                 *)

\* case '<name>': return await <tool>(authManager, args)
DispatchTable ==
    <<<<"outlook_list_emails", "listEmailsTool">>,
      <<"outlook_send_email", "sendEmailTool">>,
      <<"outlook_list_events", "listEventsTool">>,
      <<"outlook_create_event", "createEventTool">>,
      <<"outlook_get_email", "getEmailTool">>,
      <<"outlook_search_emails", "searchEmailsTool">>,
      <<"outlook_create_draft", "createDraftTool">>,
      <<"outlook_reply_to_email", "replyToEmailTool">>,
      <<"outlook_reply_all", "replyAllTool">>,
      <<"outlook_forward_email", "forwardEmailTool">>,
      <<"outlook_delete_email", "deleteEmailTool">>,
      <<"outlook_move_email", "moveEmailTool">>,
      <<"outlook_mark_as_read", "markAsReadTool">>,
      <<"outlook_flag_email", "flagEmailTool">>,
      <<"outlook_categorize_email", "categorizeEmailTool">>,
      <<"outlook_archive_email", "archiveEmailTool">>,
      <<"outlook_batch_process_emails", "batchProcessEmailsTool">>,
      <<"outlook_list_folders", "listFoldersTool">>,
      <<"outlook_create_folder", "createFolderTool">>,
      <<"outlook_rename_folder", "renameFolderTool">>,
      <<"outlook_get_folder_stats", "getFolderStatsTool">>,
      <<"outlook_list_attachments", "listAttachmentsTool">>,
      <<"outlook_download_attachment", "downloadAttachmentTool">>,
      <<"outlook_add_attachment", "addAttachmentTool">>,
      <<"outlook_scan_attachments", "scanAttachmentsTool">>,
      <<"outlook_get_sharepoint_file", "getSharePointFileTool">>,
      <<"outlook_list_sharepoint_files", "listSharePointFilesTool">>,
      <<"outlook_resolve_sharepoint_link", "resolveSharePointLinkTool">>>>

DispatchedNames == {DispatchTable[i][1] : i \in DOMAIN DispatchTable}

toolFor(name) ==
    LET i == CHOOSE j \in DOMAIN DispatchTable : DispatchTable[j][1] = name
    IN DispatchTable[i][2]

\* Names the switch has no case for: the name of a function instead of a tool,
\* a name in another case, the empty name
UndispatchedNames == {"getEmailTool", "Outlook_Get_Email", "outlook_get_emails", ""}

ToolCallNames == DispatchedNames \cup UndispatchedNames

ToolCallArgs == {Undefined, [type |-> "object"]}

ContentArray == [type |-> "array"]

\* Values a tool throws: an Error, an MCP error response (content and isError),
\* and objects that have only a part of that shape
ThrownValues ==
    [message : {"Request failed"},
     content : {Undefined, Text(""), ContentArray},
     isError : {Undefined, Bool(TRUE), Bool(FALSE)}]

\* What a tool call comes to: it returns a response or throws
ToolOutcomes ==
    {[threw |-> FALSE]} \cup [threw : {TRUE}, error : ThrownValues]

\* ToBoolean of a thrown object's field
truthy(value) ==
    CASE value.type = "undefined" -> FALSE
      [] value.type = "string" -> value.value # ""
      [] value.type = "boolean" -> value.value
      [] OTHER -> TRUE

\* createProtocolError(ErrorCodes.METHOD_NOT_FOUND, `Unknown tool: ${name}`, ...)
protocolError(code, name) ==
    [kind |-> "protocol_error", code |-> code, unknownTool |-> name]

toolResponse(tool, args) == [kind |-> "tool_response", tool |-> tool, args |-> args]

\* Mutant: the catch of the handler passes the exception on
handlerCatchRethrows(error) == [state |-> "rejected", value |-> error]

\* catch (error) of the handler
handlerCatch(error) ==
    IF truthy(error.content) /\ error.isError # Undefined
    THEN [state |-> "resolved", value |-> error]
    ELSE [state |-> "resolved", value |-> toolError(error.message)]

InitServer ==
    /\ srv = [pc |-> "idle", called |-> << >>, state |-> "pending"]
    /\ cin = Idle /\ cout = Idle /\ pin = Idle /\ pout = Idle /\ dl = Idle
    /\ req = << >> /\ fs = Idle /\ now = 0
    /\ sw = Idle /\ fr = Idle /\ em = Idle /\ pr = Idle /\ prom = Idle /\ conc = Idle

\* The handler is called: the switch calls the tool of the name and awaits it,
\* or returns the protocol error of the default case
ServerCall ==
    /\ srv.pc = "idle"
    /\ \E name \in ToolCallNames, args \in ToolCallArgs :
          IF name \in DispatchedNames
          THEN srv' = [pc |-> "awaiting", name |-> name, args |-> args,
                       called |-> <<toolFor(name)>>, state |-> "pending"]
          ELSE srv' = [pc |-> "done", name |-> name, args |-> args,
                       called |-> << >>, state |-> "resolved",
                       value |-> protocolError("METHOD_NOT_FOUND", name)]
    /\ UNCHANGED <<conc, prom, pr, em, sw, fr, cin, cout, pin, pout, req, fs, now, dl>>

\* The awaited tool returns or throws
ServerToolSettles ==
    /\ srv.pc = "awaiting"
    /\ \E outcome \in ToolOutcomes :
          LET settled == IF outcome.threw THEN handlerCatch(outcome.error)
                         ELSE [state |-> "resolved",
                               value |-> toolResponse(srv.called[1], srv.args)]
          IN srv' = Put(Put(Put(Put(srv, "pc", "done"), "outcome", outcome),
                            "state", settled.state), "value", settled.value)
    /\ UNCHANGED <<conc, prom, pr, em, sw, fr, cin, cout, pin, pout, req, fs, now, dl>>

NextServer == ServerCall \/ ServerToolSettles

SpecServer == InitServer /\ [][NextServer]_vars

ToolThrew == srv.pc = "done" /\ Has(srv, "outcome") /\ srv.outcome.threw

\* The thrown value has the shape of an MCP error response
HasMcpErrorShape ==
    /\ srv.outcome.error.content \notin {Undefined, Text("")}
    /\ srv.outcome.error.isError # Undefined

\* C30: the tool-call handler never rejects and resolves with a response for
\* every name and arguments; a name without a case yields the METHOD_NOT_FOUND
\* protocol error and calls no tool; an exception of a tool is returned as is
\* when it has the shape of an MCP error response and is converted into a tool
\* error otherwise.
C30_HandlerAlwaysResolves ==
    /\ srv.state # "rejected"
    /\ srv.pc = "done" =>
          /\ srv.state = "resolved"
          /\ srv.name \notin DispatchedNames =>
                /\ srv.value.kind = "protocol_error"
                /\ srv.value.code = "METHOD_NOT_FOUND"
                /\ srv.called = << >>
          /\ ToolThrew /\ HasMcpErrorShape => srv.value = srv.outcome.error
          /\ ToolThrew /\ ~HasMcpErrorShape =>
                /\ Has(srv.value, "kind")
                /\ srv.value.kind = "tool_error"

\* C30 witness: a tool threw an MCP error response and the handler resolved
\* with it
C30_Witness ==
    /\ ToolThrew
    /\ HasMcpErrorShape
    /\ srv.state = "resolved"
    /\ srv.value = srv.outcome.error

=============================================================================
